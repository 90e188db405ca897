------------------------ MODULE ChainConnectorProofs ------------------------
(***************************************************************************)
(* Proofs about TestChainConnector over the emulated chain, for any nodes, *)
(* any calls and any transactions of other nodes.                          *)
(***************************************************************************)
EXTENDS ChainConnector, FiniteSetTheorems, TLAPS

------------------------------------------------------------------------------
(* The watermarks of the writes in flight. *)

\* Between which steps a write is counted per operation, and in all.
Counted == {"peak", "total", "top", "held"}
CountedInAll == {"top", "held", "leaving"}

\* Any writes counted together are covered by the watermark, or one of them brings
\* a count along that will cover them: the last of them to be counted.
PeakCovers(op) ==
    \A T \in SUBSET Of(Counted, op) :
        \/ Cardinality(T) <= peakInFlight[op]
        \/ \E k \in T : guard[k] = "peak" /\ Cardinality(T) <= seen[k]

TopCovers ==
    \A T \in SUBSET In({"top", "held"}) :
        \/ Cardinality(T) <= peakTotal
        \/ \E k \in T : guard[k] = "top" /\ Cardinality(T) <= seen[k]

InFlightInv ==
    /\ InFlightTypeOK
    /\ \A op \in Ops : inFlight[op] = Cardinality(Of(Counted, op))
    /\ total = Cardinality(In(CountedInAll))
    /\ \A op \in Ops : PeakCovers(op)
    /\ TopCovers

\* Every set of calls is finite, so its size is a number and bounds its subsets'.
LEMMA CallSets ==
    /\ \A S \in SUBSET Calls : IsFiniteSet(S) /\ Cardinality(S) \in Nat
    /\ \A S \in SUBSET Calls : \A T \in SUBSET S : Cardinality(T) <= Cardinality(S)
<1>1. \A S \in SUBSET Calls : IsFiniteSet(S) /\ Cardinality(S) \in Nat
    BY CallsAssumption, FS_Subset, FS_CardinalityType
<1>2. QED
    BY <1>1, FS_Subset

\* One write more, or one less, is counted.
LEMMA OneCallMore ==
    ASSUME NEW S \in SUBSET Calls, NEW k \in Calls
    PROVE  /\ k \notin S => Cardinality(S \cup {k}) = Cardinality(S) + 1
           /\ k \in S => Cardinality(S \ {k}) = Cardinality(S) - 1
<1>1. IsFiniteSet(S)
    BY CallSets
<1>2. QED
    BY <1>1, FS_AddElement, FS_RemoveElement

\* The operation recorded without a guard is one.
LEMMA NoGuardIsOp == NoGuard \in Ops
BY CallsAssumption DEF NoGuard

\* A step that counts no write anew, lowers no watermark and leaves the counts that
\* writes still carry keeps the writes covered.
LEMMA PeakStays ==
    ASSUME InFlightTypeOK, InFlightTypeOK', NEW op \in Ops, PeakCovers(op),
           Of(Counted, op)' \subseteq Of(Counted, op),
           peakInFlight[op] <= peakInFlight'[op],
           \A j \in Of(Counted, op)' :
               guard[j] = "peak" => guard'[j] = "peak" /\ seen'[j] = seen[j]
    PROVE  PeakCovers(op)'
<1>1. SUFFICES ASSUME NEW T \in SUBSET Of(Counted, op)'
               PROVE  \/ Cardinality(T) <= peakInFlight'[op]
                      \/ \E j \in T : guard'[j] = "peak" /\ Cardinality(T) <= seen'[j]
    BY DEF PeakCovers
<1>2. \/ Cardinality(T) <= peakInFlight[op]
      \/ \E j \in T : guard[j] = "peak" /\ Cardinality(T) <= seen[j]
    BY DEF PeakCovers
<1>3. Cardinality(T) \in Nat
    BY CallSets DEF Of, In
<1>4. QED
    BY <1>2, <1>3 DEF InFlightTypeOK

\* The same for the watermark over all operations.
LEMMA TopStays ==
    ASSUME InFlightTypeOK, InFlightTypeOK', TopCovers,
           In({"top", "held"})' \subseteq In({"top", "held"}),
           peakTotal <= peakTotal',
           \A j \in In({"top", "held"})' :
               guard[j] = "top" => guard'[j] = "top" /\ seen'[j] = seen[j]
    PROVE  TopCovers'
<1>1. SUFFICES ASSUME NEW T \in SUBSET In({"top", "held"})'
               PROVE  \/ Cardinality(T) <= peakTotal'
                      \/ \E j \in T : guard'[j] = "top" /\ Cardinality(T) <= seen'[j]
    BY DEF TopCovers
<1>2. \/ Cardinality(T) <= peakTotal
      \/ \E j \in T : guard[j] = "top" /\ Cardinality(T) <= seen[j]
    BY DEF TopCovers
<1>3. Cardinality(T) \in Nat
    BY CallSets DEF In
<1>4. QED
    BY <1>2, <1>3 DEF InFlightTypeOK

\* Without a write in flight nothing is counted.
LEMMA InFlightStarts ==
    ASSUME InFlightInit
    PROVE  InFlightInv
<1>1. InFlightTypeOK
    BY NoGuardIsOp DEF InFlightInit, InFlightTypeOK
<1>2. /\ \A op \in Ops : Of(Counted, op) = {}
      /\ In(CountedInAll) = {}
      /\ In({"top", "held"}) = {}
    BY DEF InFlightInit, Of, In, Counted, CountedInAll
<1>3. Cardinality({}) = 0
    BY FS_EmptySet
<1>4. \A op \in Ops : PeakCovers(op)
    BY <1>2, <1>3 DEF PeakCovers, InFlightInit
<1>5. TopCovers
    BY <1>2, <1>3 DEF TopCovers, InFlightInit
<1>6. QED
    BY <1>1, <1>2, <1>3, <1>4, <1>5 DEF InFlightInv, InFlightInit

\* The new write brings the count of all that are in, itself included.
LEMMA EnterKeeps ==
    ASSUME InFlightInv, NEW k \in Calls, NEW o \in Ops, Enter(k, o)
    PROVE  InFlightInv'
<1> USE DEF InFlightInv
<1>1. /\ guard[k] = "out" /\ guard' = [guard EXCEPT ![k] = "peak"]
      /\ guardOp' = [guardOp EXCEPT ![k] = o]
      /\ inFlight' = [inFlight EXCEPT ![o] = @ + 1]
      /\ seen' = [seen EXCEPT ![k] = inFlight[o] + 1]
      /\ peakInFlight' = peakInFlight /\ total' = total /\ peakTotal' = peakTotal
    BY DEF Enter, Move
<1>2. InFlightTypeOK'
    <2>1. inFlight[o] + 1 \in Nat
        BY DEF InFlightTypeOK
    <2>2. QED
        BY <1>1, <2>1 DEF InFlightTypeOK
<1>3. /\ Of(Counted, o)' = Of(Counted, o) \cup {k} /\ k \notin Of(Counted, o)
      /\ \A op \in Ops \ {o} : Of(Counted, op)' = Of(Counted, op)
      /\ In(CountedInAll)' = In(CountedInAll)
      /\ In({"top", "held"})' = In({"top", "held"})
    BY <1>1 DEF Of, In, Counted, CountedInAll, InFlightTypeOK
<1>4. /\ Of(Counted, o) \in SUBSET Calls
      /\ k \notin Of(Counted, o) => Cardinality(Of(Counted, o) \cup {k}) = Cardinality(Of(Counted, o)) + 1
    <2>1. Of(Counted, o) \in SUBSET Calls
        BY DEF Of, In
    <2>2. QED
        BY <2>1, OneCallMore
<1>5. \A op \in Ops : inFlight'[op] = Cardinality(Of(Counted, op)')
    BY <1>1, <1>3, <1>4 DEF InFlightTypeOK
<1>6. \A op \in Ops : PeakCovers(op)'
    <2>1. SUFFICES ASSUME NEW op \in Ops, NEW T \in SUBSET Of(Counted, op)'
                   PROVE  \/ Cardinality(T) <= peakInFlight[op]
                          \/ \E j \in T : guard'[j] = "peak" /\ Cardinality(T) <= seen'[j]
        BY <1>1 DEF PeakCovers
    <2>2. CASE k \in T
        <3>1. op = o
            BY <1>3, <2>2, <1>1 DEF Of, In, Counted, InFlightTypeOK
        <3>2. Cardinality(T) <= Cardinality(Of(Counted, o)')
            BY <3>1, <1>3, <1>4, CallSets
        <3>3. Cardinality(T) <= seen'[k] /\ guard'[k] = "peak"
            BY <3>2, <1>1, <1>3, <1>4 DEF InFlightTypeOK
        <3>4. QED
            BY <3>3, <2>2
    <2>3. CASE k \notin T
        <3>1. T \in SUBSET Of(Counted, op)
            BY <2>3, <1>3
        <3>2. \/ Cardinality(T) <= peakInFlight[op]
              \/ \E j \in T : guard[j] = "peak" /\ Cardinality(T) <= seen[j]
            BY <3>1 DEF PeakCovers
        <3>3. \A j \in T : j \in Calls /\ guard'[j] = guard[j] /\ seen'[j] = seen[j]
            BY <3>1, <2>3, <1>1 DEF Of, In, InFlightTypeOK
        <3>4. QED
            BY <3>2, <3>3
    <2>4. QED
        BY <2>2, <2>3
<1>7. TopCovers'
    <2>1. \A j \in In({"top", "held"})' : guard'[j] = guard[j] /\ seen'[j] = seen[j]
        BY <1>1 DEF In, InFlightTypeOK
    <2>2. QED
        BY <1>1, <1>2, <1>3, <2>1, TopStays DEF InFlightTypeOK
<1>8. QED
    BY <1>1, <1>2, <1>3, <1>5, <1>6, <1>7

\* The watermark takes over the count the write brought.
LEMMA RaisePeakKeeps ==
    ASSUME InFlightInv, NEW k \in Calls, RaisePeak(k)
    PROVE  InFlightInv'
<1> USE DEF InFlightInv
<1> DEFINE o == guardOp[k]
<1>1. /\ guard[k] = "peak" /\ guard' = [guard EXCEPT ![k] = "total"]
      /\ peakInFlight' = [peakInFlight EXCEPT ![o] = Larger(@, seen[k])]
      /\ guardOp' = guardOp /\ seen' = seen /\ inFlight' = inFlight
      /\ total' = total /\ peakTotal' = peakTotal
    BY DEF RaisePeak, Move
<1>2. /\ o \in Ops /\ seen[k] \in Nat /\ peakInFlight[o] \in Nat
      /\ Larger(peakInFlight[o], seen[k]) \in Nat
      /\ Larger(peakInFlight[o], seen[k]) >= seen[k]
      /\ Larger(peakInFlight[o], seen[k]) >= peakInFlight[o]
    BY DEF InFlightTypeOK, Larger
<1>3. InFlightTypeOK'
    BY <1>1, <1>2 DEF InFlightTypeOK
<1>4. /\ \A op \in Ops : Of(Counted, op)' = Of(Counted, op)
      /\ In(CountedInAll)' = In(CountedInAll)
      /\ In({"top", "held"})' = In({"top", "held"})
    BY <1>1 DEF Of, In, Counted, CountedInAll, InFlightTypeOK
<1>5. \A op \in Ops : PeakCovers(op)'
    <2>1. SUFFICES ASSUME NEW op \in Ops
                   PROVE  PeakCovers(op)'
        OBVIOUS
    <2>2. \A j \in Of(Counted, op)' : j # k => guard'[j] = guard[j] /\ seen'[j] = seen[j]
        BY <1>1 DEF Of, In, InFlightTypeOK
    <2>3. CASE op = o
        <3>1. SUFFICES ASSUME NEW T \in SUBSET Of(Counted, op)'
                       PROVE  \/ Cardinality(T) <= peakInFlight'[op]
                              \/ \E j \in T : guard'[j] = "peak" /\ Cardinality(T) <= seen'[j]
            BY DEF PeakCovers
        <3>2. \/ Cardinality(T) <= peakInFlight[op]
              \/ \E j \in T : guard[j] = "peak" /\ Cardinality(T) <= seen[j]
            BY <1>4 DEF PeakCovers
        <3>3. peakInFlight'[op] = Larger(peakInFlight[o], seen[k])
            BY <1>1, <2>3 DEF InFlightTypeOK
        <3>4. Cardinality(T) \in Nat
            BY CallSets DEF Of, In
        <3>5. CASE \E j \in T : j # k /\ guard[j] = "peak" /\ Cardinality(T) <= seen[j]
            BY <3>5, <2>2
        <3>6. CASE Cardinality(T) <= seen[k]
            BY <3>6, <3>3, <3>4, <1>2
        <3>7. CASE Cardinality(T) <= peakInFlight[op]
            BY <3>7, <2>3, <3>3, <3>4, <1>2
        <3>8. QED
            BY <3>2, <3>5, <3>6, <3>7
    <2>4. CASE op # o
        <3>1. k \notin Of(Counted, op)' /\ peakInFlight'[op] = peakInFlight[op]
            BY <1>1, <2>4 DEF Of, InFlightTypeOK
        <3>2. QED
            BY <3>1, <2>2, <1>3, <1>4, PeakStays DEF InFlightTypeOK
    <2>5. QED
        BY <2>3, <2>4
<1>6. TopCovers'
    <2>1. \A j \in In({"top", "held"})' : guard'[j] = guard[j] /\ seen'[j] = seen[j]
        BY <1>1 DEF In, InFlightTypeOK
    <2>2. QED
        BY <1>1, <1>3, <1>4, <2>1, TopStays DEF InFlightTypeOK
<1>7. QED
    BY <1>1, <1>3, <1>4, <1>5, <1>6

\* The count over all operations: the write brings the count of all that are in.
LEMMA FetchAddTotalKeeps ==
    ASSUME InFlightInv, NEW k \in Calls, FetchAddTotal(k)
    PROVE  InFlightInv'
<1> USE DEF InFlightInv
<1>1. /\ guard[k] = "total" /\ guard' = [guard EXCEPT ![k] = "top"]
      /\ total' = total + 1
      /\ seen' = [seen EXCEPT ![k] = total + 1]
      /\ guardOp' = guardOp /\ inFlight' = inFlight /\ peakInFlight' = peakInFlight
      /\ peakTotal' = peakTotal
    BY DEF FetchAddTotal, Move
<1>2. InFlightTypeOK'
    <2>1. total + 1 \in Nat
        BY DEF InFlightTypeOK
    <2>2. QED
        BY <1>1, <2>1 DEF InFlightTypeOK
<1>3. /\ \A op \in Ops : Of(Counted, op)' = Of(Counted, op)
      /\ In(CountedInAll)' = In(CountedInAll) \cup {k} /\ k \notin In(CountedInAll)
      /\ In({"top", "held"})' = In({"top", "held"}) \cup {k}
      /\ In({"top", "held"})' \subseteq In(CountedInAll)'
    BY <1>1 DEF Of, In, Counted, CountedInAll, InFlightTypeOK
<1>4. total' = Cardinality(In(CountedInAll)')
    <2>1. In(CountedInAll) \in SUBSET Calls
        BY DEF In
    <2>2. QED
        BY <2>1, <1>1, <1>3, OneCallMore
<1>5. \A op \in Ops : PeakCovers(op)'
    <2>1. SUFFICES ASSUME NEW op \in Ops
                   PROVE  PeakCovers(op)'
        OBVIOUS
    <2>2. \A j \in Of(Counted, op)' :
              guard[j] = "peak" => guard'[j] = "peak" /\ seen'[j] = seen[j]
        BY <1>1 DEF Of, In, InFlightTypeOK
    <2>3. QED
        BY <2>2, <1>1, <1>2, <1>3, PeakStays DEF InFlightTypeOK
<1>6. TopCovers'
    <2>1. SUFFICES ASSUME NEW T \in SUBSET In({"top", "held"})'
                   PROVE  \/ Cardinality(T) <= peakTotal
                          \/ \E j \in T : guard'[j] = "top" /\ Cardinality(T) <= seen'[j]
        BY <1>1 DEF TopCovers
    <2>2. CASE k \in T
        <3>1. T \subseteq In(CountedInAll)' /\ In(CountedInAll)' \subseteq Calls
            BY <1>3 DEF In
        <3>2. Cardinality(T) <= total'
            BY <3>1, <1>4, CallSets
        <3>3. seen'[k] = total' /\ guard'[k] = "top"
            BY <1>1 DEF InFlightTypeOK
        <3>4. QED
            BY <3>2, <3>3, <2>2
    <2>3. CASE k \notin T
        <3>1. T \in SUBSET In({"top", "held"})
            BY <2>3, <1>3
        <3>2. \/ Cardinality(T) <= peakTotal
              \/ \E j \in T : guard[j] = "top" /\ Cardinality(T) <= seen[j]
            BY <3>1 DEF TopCovers
        <3>3. \A j \in T : guard'[j] = guard[j] /\ seen'[j] = seen[j]
            BY <3>1, <2>3, <1>1 DEF In, InFlightTypeOK
        <3>4. QED
            BY <3>2, <3>3
    <2>4. QED
        BY <2>2, <2>3
<1>7. QED
    BY <1>1, <1>2, <1>3, <1>4, <1>5, <1>6

\* The watermark over all operations takes over the count the write brought.
LEMMA FetchMaxTotalKeeps ==
    ASSUME InFlightInv, NEW k \in Calls, FetchMaxTotal(k)
    PROVE  InFlightInv'
<1> USE DEF InFlightInv
<1>1. /\ guard[k] = "top" /\ guard' = [guard EXCEPT ![k] = "held"]
      /\ peakTotal' = Larger(peakTotal, seen[k])
      /\ seen' = [seen EXCEPT ![k] = 0]
      /\ guardOp' = guardOp /\ inFlight' = inFlight /\ peakInFlight' = peakInFlight
      /\ total' = total
    BY DEF FetchMaxTotal, Move
<1>2. /\ seen[k] \in Nat /\ peakTotal \in Nat /\ peakTotal' \in Nat
      /\ peakTotal' >= seen[k] /\ peakTotal' >= peakTotal
    BY <1>1 DEF InFlightTypeOK, Larger
<1>3. InFlightTypeOK'
    BY <1>1, <1>2 DEF InFlightTypeOK
<1>4. /\ \A op \in Ops : Of(Counted, op)' = Of(Counted, op)
      /\ In(CountedInAll)' = In(CountedInAll)
      /\ In({"top", "held"})' = In({"top", "held"})
    BY <1>1 DEF Of, In, Counted, CountedInAll, InFlightTypeOK
<1>5. \A op \in Ops : PeakCovers(op)'
    <2>1. SUFFICES ASSUME NEW op \in Ops
                   PROVE  PeakCovers(op)'
        OBVIOUS
    <2>2. \A j \in Of(Counted, op)' :
              guard[j] = "peak" => guard'[j] = "peak" /\ seen'[j] = seen[j]
        BY <1>1 DEF Of, In, InFlightTypeOK
    <2>3. QED
        BY <2>2, <1>1, <1>3, <1>4, PeakStays DEF InFlightTypeOK
<1>6. TopCovers'
    <2>1. SUFFICES ASSUME NEW T \in SUBSET In({"top", "held"})'
                   PROVE  \/ Cardinality(T) <= peakTotal'
                          \/ \E j \in T : guard'[j] = "top" /\ Cardinality(T) <= seen'[j]
        BY DEF TopCovers
    <2>2. \/ Cardinality(T) <= peakTotal
          \/ \E j \in T : guard[j] = "top" /\ Cardinality(T) <= seen[j]
        BY <1>4 DEF TopCovers
    <2>3. \A j \in T : j # k => guard'[j] = guard[j] /\ seen'[j] = seen[j]
        BY <1>1 DEF In, InFlightTypeOK
    <2>4. Cardinality(T) \in Nat
        BY CallSets DEF In
    <2>5. CASE \E j \in T : j # k /\ guard[j] = "top" /\ Cardinality(T) <= seen[j]
        BY <2>5, <2>3
    <2>6. CASE Cardinality(T) <= seen[k] \/ Cardinality(T) <= peakTotal
        BY <2>6, <2>4, <1>2
    <2>7. QED
        BY <2>2, <2>5, <2>6
<1>7. QED
    BY <1>1, <1>3, <1>4, <1>5, <1>6

\* A write that leaves takes its count with it, which is therefore not 0.
LEMMA LeaveKeeps ==
    ASSUME InFlightInv, NEW k \in Calls, Leave(k)
    PROVE  InFlightInv'
<1> USE DEF InFlightInv
<1> DEFINE o == guardOp[k]
<1>1. /\ guard[k] = "held" /\ guard' = [guard EXCEPT ![k] = "leaving"]
      /\ inFlight' = [inFlight EXCEPT ![o] = SaturatingDec(@)]
      /\ guardOp' = guardOp /\ seen' = seen /\ peakInFlight' = peakInFlight
      /\ total' = total /\ peakTotal' = peakTotal
    BY DEF Leave, Move
<1>2. o \in Ops /\ inFlight[o] \in Nat /\ SaturatingDec(inFlight[o]) \in Nat
    BY DEF InFlightTypeOK, SaturatingDec
<1>3. InFlightTypeOK'
    BY <1>1, <1>2 DEF InFlightTypeOK
<1>4. /\ Of(Counted, o)' = Of(Counted, o) \ {k} /\ k \in Of(Counted, o)
      /\ \A op \in Ops \ {o} : Of(Counted, op)' = Of(Counted, op)
      /\ In(CountedInAll)' = In(CountedInAll)
      /\ In({"top", "held"})' \subseteq In({"top", "held"})
    BY <1>1 DEF Of, In, Counted, CountedInAll, InFlightTypeOK
<1>5. \A op \in Ops : inFlight'[op] = Cardinality(Of(Counted, op)')
    <2>1. Of(Counted, o) \in SUBSET Calls /\ Of(Counted, o) \ {k} \in SUBSET Calls
        BY DEF Of, In
    <2>2. Cardinality(Of(Counted, o) \ {k}) = Cardinality(Of(Counted, o)) - 1
        BY <1>4, <2>1, OneCallMore
    <2>3. Cardinality(Of(Counted, o) \ {k}) \in Nat
        BY <2>1, CallSets
    <2>4. SaturatingDec(inFlight[o]) = Cardinality(Of(Counted, o) \ {k})
        BY <1>2, <2>2, <2>3 DEF SaturatingDec
    <2>5. QED
        BY <1>1, <1>2, <1>4, <2>4 DEF InFlightTypeOK
<1>6. \A op \in Ops : PeakCovers(op)'
    <2>1. SUFFICES ASSUME NEW op \in Ops
                   PROVE  PeakCovers(op)'
        OBVIOUS
    <2>2. \A j \in Of(Counted, op)' :
              guard[j] = "peak" => guard'[j] = "peak" /\ seen'[j] = seen[j]
        BY <1>1 DEF Of, In, InFlightTypeOK
    <2>3. Of(Counted, op)' \subseteq Of(Counted, op)
        <3>1. CASE op = o
            BY <3>1, <1>1, <1>4
        <3>2. CASE op # o
            BY <3>2, <1>4
        <3>3. QED
            BY <3>1, <3>2
    <2>4. QED
        BY <2>2, <2>3, <1>1, <1>3, PeakStays DEF InFlightTypeOK
<1>7. TopCovers'
    <2>1. \A j \in In({"top", "held"})' : guard'[j] = guard[j] /\ seen'[j] = seen[j]
        BY <1>1 DEF In, InFlightTypeOK
    <2>2. QED
        BY <1>1, <1>3, <1>4, <2>1, TopStays DEF InFlightTypeOK
<1>8. QED
    BY <1>1, <1>3, <1>4, <1>5, <1>6, <1>7

\* The same for the count over all operations, the guard's last step.
LEMMA LeaveTotalKeeps ==
    ASSUME InFlightInv, NEW k \in Calls, LeaveTotal(k)
    PROVE  InFlightInv'
<1> USE DEF InFlightInv
<1>1. /\ guard[k] = "leaving" /\ guard' = [guard EXCEPT ![k] = "out"]
      /\ total' = SaturatingDec(total)
      /\ guardOp' = [guardOp EXCEPT ![k] = NoGuard]
      /\ seen' = seen /\ inFlight' = inFlight /\ peakInFlight' = peakInFlight
      /\ peakTotal' = peakTotal
    BY DEF LeaveTotal, Move
<1>2. InFlightTypeOK'
    <2>1. SaturatingDec(total) \in Nat
        BY DEF InFlightTypeOK, SaturatingDec
    <2>2. QED
        BY <1>1, <2>1, NoGuardIsOp DEF InFlightTypeOK
<1>3. /\ \A op \in Ops : Of(Counted, op)' = Of(Counted, op)
      /\ In(CountedInAll)' = In(CountedInAll) \ {k} /\ k \in In(CountedInAll)
      /\ In({"top", "held"})' = In({"top", "held"})
    BY <1>1 DEF Of, In, Counted, CountedInAll, InFlightTypeOK
<1>4. total' = Cardinality(In(CountedInAll)')
    <2>1. In(CountedInAll) \in SUBSET Calls /\ In(CountedInAll) \ {k} \in SUBSET Calls
        BY DEF In
    <2>2. /\ Cardinality(In(CountedInAll) \ {k}) = total - 1
          /\ Cardinality(In(CountedInAll) \ {k}) \in Nat
        BY <1>3, <2>1, OneCallMore, CallSets
    <2>3. QED
        BY <1>1, <1>3, <2>2 DEF SaturatingDec, InFlightTypeOK
<1>5. \A op \in Ops : PeakCovers(op)'
    <2>1. SUFFICES ASSUME NEW op \in Ops
                   PROVE  PeakCovers(op)'
        OBVIOUS
    <2>2. \A j \in Of(Counted, op)' :
              guard[j] = "peak" => guard'[j] = "peak" /\ seen'[j] = seen[j]
        BY <1>1 DEF Of, In, InFlightTypeOK
    <2>3. QED
        BY <2>2, <1>1, <1>2, <1>3, PeakStays DEF InFlightTypeOK
<1>6. TopCovers'
    <2>1. \A j \in In({"top", "held"})' : guard'[j] = guard[j] /\ seen'[j] = seen[j]
        BY <1>1 DEF In, InFlightTypeOK
    <2>2. QED
        BY <1>1, <1>2, <1>3, <2>1, TopStays DEF InFlightTypeOK
<1>7. QED
    BY <1>1, <1>2, <1>3, <1>4, <1>5, <1>6

------------------------------------------------------------------------------
(* The calls under way. *)

CallFields == {"op", "id", "tx", "goal", "behind", "late"}

\* Every call is for an operation, and one about to submit has a transaction.
CallsInv ==
    /\ DOMAIN call = Calls
    /\ at \in [Calls -> {"idle", "hung", "sending", "tracked", "waiting", "confirming",
                          "stuck", "ending"}]
    /\ \A k \in Calls :
         /\ DOMAIN call[k] = CallFields
         /\ call[k].op \in Ops
         /\ at[k] = "sending" => call[k].tx \in Txs

\* No call is a call's record too.
LEMMA NoCallIsCall == DOMAIN NoCall = CallFields /\ NoCall.op \in Ops
BY NoGuardIsOp DEF NoCall, CallFields

\* A gated call goes on with the record its operation prepared.
LEMMA GateKeepsCalls ==
    ASSUME CallsInv, NEW k \in Calls, NEW op, NEW fault \in Faults,
           NEW next \in {"sending", "idle"}, NEW record, Gate(k, op, fault, next, record),
           next = "sending" =>
               DOMAIN record = CallFields /\ record.op \in Ops /\ record.tx \in Txs
    PROVE  CallsInv'
<1>1. /\ at' \in [Calls -> {"idle", "hung", "sending", "tracked", "waiting", "confirming",
                          "stuck", "ending"}]
      /\ at'[k] = "sending" => fault = "None" /\ next = "sending"
      /\ \A j \in Calls : j # k => at'[j] = at[j]
    BY DEF Gate, Faults, CallsInv
<1>2. /\ DOMAIN call' = Calls
      /\ \A j \in Calls : j # k => call'[j] = call[j]
      /\ call'[k] = IF fault = "None" /\ next = "sending" THEN record ELSE NoCall
    BY DEF Gate, CallsInv
<1>3. ASSUME NEW j \in Calls
      PROVE  /\ DOMAIN call'[j] = CallFields
             /\ call'[j].op \in Ops
             /\ at'[j] = "sending" => call'[j].tx \in Txs
    <2>1. CASE j = k
        BY <2>1, <1>1, <1>2, NoCallIsCall
    <2>2. CASE j # k
        BY <2>2, <1>1, <1>2 DEF CallsInv
    <2>3. QED
        BY <2>1, <2>2
<1>4. QED
    BY <1>1, <1>2, <1>3 DEF CallsInv

\* The funding transactions of this node, and its closing ones.
LEMMA OwnTxsAreTxs ==
    /\ \A dst \in Nodes \ {Me}, amount \in Stakes : FundTx(dst, amount) \in Txs
    /\ \A id \in Outgoing, closure \in ClosureTimes : CloseTx(id, closure) \in Txs
<1>1. ASSUME NEW dst \in Nodes \ {Me}, NEW amount \in Stakes
      PROVE  FundTx(dst, amount) \in Txs
    <2>1. FundTx(dst, amount) \in
            {tx \in [action : {"FundChannel"}, sender : Nodes, destination : Nodes, stake : Nat] :
                tx.sender # tx.destination}
        BY TxsAssumption DEF FundTx
    <2>2. QED
        BY <2>1 DEF Txs
<1>2. ASSUME NEW id \in Outgoing, NEW closure \in ClosureTimes
      PROVE  CloseTx(id, closure) \in Txs
    <2>1. CloseTx(id, closure) \in
            [action : {"InitializeChannelClosure", "FinalizeChannelClosure", "IncomingChannelClosure"},
             sender : Nodes, id : ChannelIds, closure : Nat]
        BY TxsAssumption DEF CloseTx, Outgoing
    <2>2. QED
        BY <2>1 DEF Txs
<1>3. QED
    BY <1>1, <1>2

\* open_channel, fund_channel and close_channel prepare a transaction of their own.
LEMMA OpeningKeepsCalls ==
    ASSUME CallsInv, NEW k \in Calls, OpenChannel(k) \/ FundKnownChannel(k) \/ CloseChannel(k)
    PROVE  CallsInv'
<1>1. ASSUME OpenChannel(k)
      PROVE  CallsInv'
    <2>1. PICK dst \in Nodes \ {Me}, amount \in Stakes, fault \in Faults :
            Gate(k, "OpenChannel", fault, "sending",
                 [NoCall EXCEPT !.op = "OpenChannel", !.id = <<Me, dst>>, !.tx = FundTx(dst, amount)])
        BY <1>1 DEF OpenChannel
    <2> DEFINE record == [NoCall EXCEPT !.op = "OpenChannel", !.id = <<Me, dst>>,
                                        !.tx = FundTx(dst, amount)]
    <2>2. DOMAIN record = CallFields /\ record.op = "OpenChannel" /\ record.tx = FundTx(dst, amount)
        BY DEF NoCall, CallFields
    <2>3. record.op \in Ops /\ record.tx \in Txs
        BY <2>2, CallsAssumption, OwnTxsAreTxs
    <2> HIDE DEF record
    <2>4. QED
        BY <2>1, <2>2, <2>3, GateKeepsCalls DEF record
<1>2. ASSUME FundKnownChannel(k)
      PROVE  CallsInv'
    <2>1. PICK id \in Outgoing, amount \in Stakes, fault \in Faults :
            Gate(k, "FundChannel", fault, IF id \in DOMAIN view THEN "sending" ELSE "idle",
                 [NoCall EXCEPT !.op = "FundChannel", !.id = id, !.tx = FundTx(id[2], amount),
                                !.goal = FundedTo(id, amount)])
        BY <1>2 DEF FundKnownChannel
    <2> DEFINE record == [NoCall EXCEPT !.op = "FundChannel", !.id = id,
                                        !.tx = FundTx(id[2], amount), !.goal = FundedTo(id, amount)]
    <2>2. DOMAIN record = CallFields /\ record.op = "FundChannel" /\ record.tx = FundTx(id[2], amount)
        BY DEF NoCall, CallFields
    <2>3. id[2] \in Nodes \ {Me}
        BY DEF Outgoing, ChannelIds
    <2>4. record.op \in Ops /\ record.tx \in Txs
        BY <2>2, <2>3, CallsAssumption, OwnTxsAreTxs
    <2> HIDE DEF record
    <2>5. QED
        BY <2>1, <2>2, <2>4, GateKeepsCalls DEF record
<1>3. ASSUME CloseChannel(k)
      PROVE  CallsInv'
    <2>1. PICK id \in Outgoing, closure \in ClosureTimes, fault \in Faults :
            Gate(k, "CloseChannel", fault, IF Closable(id) THEN "sending" ELSE "idle",
                 [NoCall EXCEPT !.op = "CloseChannel", !.id = id, !.tx = CloseTx(id, closure),
                                !.goal = Status(view[id])])
        BY <1>3 DEF CloseChannel
    <2> DEFINE record == [NoCall EXCEPT !.op = "CloseChannel", !.id = id,
                                        !.tx = CloseTx(id, closure), !.goal = Status(view[id])]
    <2>2. DOMAIN record = CallFields /\ record.op = "CloseChannel" /\ record.tx = CloseTx(id, closure)
        BY DEF NoCall, CallFields
    <2>3. record.op \in Ops /\ record.tx \in Txs
        BY <2>2, CallsAssumption, OwnTxsAreTxs
    <2> HIDE DEF record
    <2>4. QED
        BY <2>1, <2>2, <2>3, GateKeepsCalls DEF record
<1>4. QED
    BY <1>1, <1>2, <1>3

\* The steps of a call after its submission leave its operation alone or end it.
LEMMA StepKeepsCalls ==
    ASSUME CallsInv, NEW k \in Calls, CallStep(k) \/ DropFuture(k) \/ Submit(k)
    PROVE  CallsInv'
<1> USE DEF CallsInv
<1>1. ASSUME SendTx(k)
      PROVE  CallsInv'
    <2>1. PICK outcome \in BOOLEAN :
            /\ at' = [at EXCEPT ![k] = IF outcome /\ Tracked(k) THEN "tracked" ELSE "idle"]
            /\ call' = [call EXCEPT ![k] =
                    IF outcome /\ Tracked(k)
                    THEN [call[k] EXCEPT !.behind = Len(feed'), !.tx = <<>>] ELSE NoCall]
        BY <1>1 DEF SendTx
    <2> DEFINE record == [call[k] EXCEPT !.behind = Len(feed'), !.tx = <<>>]
    <2>2. DOMAIN record = CallFields /\ record.op = call[k].op
        BY DEF CallFields
    <2> HIDE DEF record
    <2>3. call'[k] \in {record, NoCall} /\ at'[k] # "sending"
        BY <2>1 DEF record
    <2>4. QED
        BY <2>1, <2>2, <2>3, NoCallIsCall
<1>2. ASSUME EnterInFlight(k) \/ DropGuard(k)
      PROVE  CallsInv'
    <2>1. call' = call /\ \A j \in Calls : at'[j] # "sending" \/ at'[j] = at[j]
        BY <1>2 DEF EnterInFlight, DropGuard
    <2>2. at' \in [Calls -> {"idle", "hung", "sending", "tracked", "waiting", "confirming",
                             "stuck", "ending"}]
        BY <1>2 DEF EnterInFlight, DropGuard
    <2>3. QED
        BY <2>1, <2>2
<1>3. ASSUME NEW late, AwaitOwnView(k, late)
      PROVE  CallsInv'
    <2>1. /\ at' = [at EXCEPT ![k] = "confirming"]
          /\ call' = [call EXCEPT ![k] = [call[k] EXCEPT !.late = late]]
        BY <1>3 DEF AwaitOwnView
    <2> DEFINE record == [call[k] EXCEPT !.late = late]
    <2>2. DOMAIN record = CallFields /\ record.op = call[k].op
        BY DEF CallFields
    <2> HIDE DEF record
    <2>3. call' = [call EXCEPT ![k] = record]
        BY <2>1 DEF record
    <2>4. QED
        BY <2>1, <2>2, <2>3
<1>4. ASSUME Confirm(k) \/ DropFuture(k)
      PROVE  CallsInv'
    <2>1. /\ call' = [call EXCEPT ![k] = NoCall]
          /\ at'[k] # "sending" /\ \A j \in Calls : j # k => at'[j] = at[j]
        BY <1>4 DEF Confirm, DropFuture
    <2>2. at' \in [Calls -> {"idle", "hung", "sending", "tracked", "waiting", "confirming",
                             "stuck", "ending"}]
        BY <1>4 DEF Confirm, DropFuture
    <2>3. QED
        BY <2>1, <2>2, NoCallIsCall
<1>5. ASSUME Submit(k)
      PROVE  CallsInv'
    <2>1. PICK tx \in OwnTxs : call' = [call EXCEPT ![k] = [call[k] EXCEPT !.tx = tx]]
        BY <1>5 DEF Submit
    <2>2. at' = [at EXCEPT ![k] = "sending"]
        BY <1>5 DEF Submit
    <2> DEFINE record == [call[k] EXCEPT !.tx = tx]
    <2>3. DOMAIN record = CallFields /\ record.op = call[k].op /\ record.tx = tx
        BY DEF CallFields
    <2> HIDE DEF record
    <2>4. call' = [call EXCEPT ![k] = record] /\ tx \in Txs
        BY <2>1, TxsAssumption DEF record
    <2>5. QED
        BY <2>2, <2>3, <2>4
<1>6. QED
    BY <1>1, <1>2, <1>3, <1>4, <1>5 DEF CallStep

\* Connecting, ingesting and the other nodes' transactions start and end no call.
LEMMA OthersKeepCalls ==
    ASSUME CallsInv,
           \/ Connect \/ Ingest \/ Broadcast \/ Activate \/ PeerTx
           \/ \E id \in ChannelIds : Snapshot(id)
    PROVE  CallsInv'
<1> USE DEF CallsInv
<1>1. CASE Ingest
    <2>1. /\ at' = at
          /\ call' = [k \in Calls |-> [call[k] EXCEPT !.behind = IF @ = 0 THEN 0 ELSE @ - 1]]
        BY <1>1 DEF Ingest, CatchUp
    <2>2. ASSUME NEW k \in Calls
          PROVE  /\ DOMAIN call'[k] = CallFields
                 /\ call'[k].op = call[k].op /\ call'[k].tx = call[k].tx
        BY <2>1 DEF CallFields
    <2>3. QED
        BY <2>1, <2>2
<1>2. CASE ~Ingest
    <2>1. at' = at /\ call' = call
        BY <1>2 DEF Connect, QueryAccounts, QueryChannels, SubscribeGraph, Broadcast, Activate, PeerTx,
                    Snapshot, callVars
    <2>2. QED
        BY <2>1
<1>3. QED
    BY <1>1, <1>2

\* Every step keeps the calls in order.
LEMMA CallsStep ==
    ASSUME CallsInv, [Next]_vars
    PROVE  CallsInv'
<1>1. CASE UNCHANGED vars
    BY <1>1 DEF CallsInv, vars, callVars
<1>2. CASE \E k \in Calls : \/ OpenChannel(k) \/ FundKnownChannel(k) \/ CloseChannel(k)
                            \/ Submit(k) \/ CallStep(k) \/ DropFuture(k)
    BY <1>2, OpeningKeepsCalls, StepKeepsCalls
<1>3. QED
    BY <1>1, <1>2, OthersKeepCalls DEF Next

\* At first no call is under way.
LEMMA CallsStart ==
    ASSUME ConnectorInit
    PROVE  CallsInv
BY NoCallIsCall DEF ConnectorInit, CallsInv

\* A step of the connector takes at most one step of one write's guard.
LEMMA InFlightStep ==
    ASSUME InFlightInv, CallsInv, [Next]_vars
    PROVE  InFlightInv'
<1>1. CASE UNCHANGED inFlightVars
    BY <1>1 DEF InFlightInv, InFlightTypeOK, PeakCovers, TopCovers, Of, In, inFlightVars
<1>2. ASSUME NEW k \in Calls, EnterInFlight(k)
      PROVE  InFlightInv'
    <2>1. \/ Enter(k, call[k].op) \/ RaisePeak(k) \/ FetchAddTotal(k) \/ FetchMaxTotal(k)
        BY <1>2 DEF EnterInFlight, Entering
    <2>2. call[k].op \in Ops
        BY DEF CallsInv
    <2>3. QED
        BY <2>1, <2>2, EnterKeeps, RaisePeakKeeps, FetchAddTotalKeeps, FetchMaxTotalKeeps
<1>3. ASSUME NEW k \in Calls, DropGuard(k)
      PROVE  InFlightInv'
    BY <1>3, LeaveKeeps, LeaveTotalKeeps DEF DropGuard
<1>4. ASSUME NEW k \in Calls,
             \/ OpenChannel(k) \/ FundKnownChannel(k) \/ CloseChannel(k)
      PROVE  UNCHANGED inFlightVars
    BY <1>4 DEF OpenChannel, FundKnownChannel, CloseChannel, Gate
<1>5. ASSUME NEW k \in Calls,
             \/ Submit(k) \/ SendTx(k) \/ AwaitOwnView(k, FALSE) \/ AwaitOwnView(k, TRUE)
             \/ Confirm(k) \/ DropFuture(k)
      PROVE  UNCHANGED inFlightVars
    BY <1>5 DEF Submit, SendTx, AwaitOwnView, Confirm, DropFuture
<1>6. ASSUME \/ Connect \/ Ingest \/ Broadcast \/ Activate \/ PeerTx
             \/ \E id \in ChannelIds : Snapshot(id)
      PROVE  UNCHANGED inFlightVars
    BY <1>6 DEF Connect, QueryAccounts, QueryChannels, SubscribeGraph, Ingest, Broadcast, Activate, PeerTx,
                Snapshot
<1>7. CASE UNCHANGED vars
    BY <1>1, <1>7 DEF vars
<1>8. QED
    BY <1>1, <1>2, <1>3, <1>4, <1>5, <1>6, <1>7 DEF Next, CallStep

\* The writes whose enter_in_flight has returned carry no count any more, so the
\* watermarks themselves cover them.
LEMMA CoveredByPeaks ==
    ASSUME InFlightInv
    PROVE  PeaksCoverGuards
<1> USE DEF InFlightInv
<1>1. ASSUME NEW op \in Ops
      PROVE  peakInFlight[op] >= Cardinality(Of({"total", "top", "held"}, op))
    <2> DEFINE T == Of({"total", "top", "held"}, op)
    <2>1. T \in SUBSET Of(Counted, op) /\ \A k \in T : guard[k] # "peak"
        BY DEF Of, In, Counted
    <2>2. Cardinality(T) <= peakInFlight[op]
        BY <2>1 DEF PeakCovers
    <2>3. Cardinality(T) \in Nat /\ peakInFlight[op] \in Nat
        BY CallSets DEF Of, In, InFlightTypeOK
    <2>4. QED
        BY <2>2, <2>3
<1>2. peakTotal >= Cardinality(In({"held"}))
    <2> DEFINE T == In({"held"})
    <2>1. T \in SUBSET In({"top", "held"}) /\ \A k \in T : guard[k] # "top"
        BY DEF In
    <2>2. Cardinality(T) <= peakTotal
        BY <2>1 DEF TopCovers
    <2>3. Cardinality(T) \in Nat /\ peakTotal \in Nat
        BY CallSets DEF In, InFlightTypeOK
    <2>4. QED
        BY <2>2, <2>3
<1>3. QED
    BY <1>1, <1>2 DEF PeaksCoverGuards, Counted, CountedInAll

\* However the atomic steps of any number of writes interleave, and whenever their
\* futures are dropped, the counters of ChainFaults count the guards alive and the
\* watermarks cover all writes that were outstanding together.
THEOREM WatermarksCoverWrites == Spec => []PeaksCoverGuards
<1> DEFINE IInv == CallsInv /\ InFlightInv
<1>1. ConnectorInit => IInv
    BY CallsStart, InFlightStarts DEF ConnectorInit
<1>2. IInv /\ [Next]_vars => IInv'
    BY CallsStep, InFlightStep
<1>3. IInv => PeaksCoverGuards
    BY CoveredByPeaks
<1>4. QED
    BY <1>1, <1>2, <1>3, PTL DEF Spec

------------------------------------------------------------------------------
(* The transactions of the emulator. *)

\* No channel disappears, and tickets stay ordered: the epoch grows, or within it
\* the index, which a loss of balance must have moved.
EpochOrder(old, new) ==
    \A id \in DOMAIN old :
        /\ id \in DOMAIN new
        /\ \/ new[id].epoch > old[id].epoch
           \/ /\ new[id].epoch = old[id].epoch
              /\ new[id].index >= old[id].index
              /\ new[id].balance < old[id].balance => new[id].index > old[id].index

IsResult(c, r) ==
    /\ r.ok \in BOOLEAN
    /\ IsChain(r.chain)
    /\ EpochOrder(c.channels, r.chain.channels)

\* Leaving the channels alone is in order.
LEMMA SameOrder ==
    ASSUME NEW c, IsChain(c)
    PROVE  EpochOrder(c.channels, c.channels)
BY DEF EpochOrder, IsChain, AreEntries, Entry

\* So is an outcome that changes nothing.
LEMMA ErrIsResult ==
    ASSUME NEW c, IsChain(c)
    PROVE  IsResult(c, Err(c)) /\ IsResult(c, Ok(c))
BY SameOrder DEF IsResult, Err, Ok

\* Moving value between purses keeps them purses.
LEMMA DebitedPurse ==
    ASSUME NEW A, NEW f, IsPurse(f, A), NEW a, NEW n \in Nat, Holds(f, a, n)
    PROVE  IsPurse(Debit(f, a, n), A)
<1>1. f[a] - n \in Nat
    BY DEF IsPurse, Holds
<1>2. QED
    BY <1>1 DEF IsPurse, Debit

\* The same for a purse that receives, new or not.
LEMMA CreditedPurse ==
    ASSUME NEW A, NEW f, IsPurse(f, A), NEW a \in A, NEW n \in Nat
    PROVE  IsPurse(Credit(f, a, n), A)
<1>1. (IF a \in DOMAIN f THEN f[a] ELSE 0) + n \in Nat
    BY DEF IsPurse
<1>2. QED
    BY <1>1 DEF IsPurse, Credit, Put

\* The safe of an account is a deployed one or none.
LEMMA SafeOfType ==
    ASSUME NEW c, IsChain(c), NEW n
    PROVE  SafeOf(c, n) \in Safes \cup {NoSafe}
BY DEF SafeOf, IsChain

\* A state with another purse, or other accounts, is a state.
LEMMA ChainWithPurse ==
    ASSUME NEW c, IsChain(c), NEW name \in {"native", "token"}, NEW f,
           IsPurse(f, Nodes \cup Safes)
    PROVE  IsResult(c, Ok([c EXCEPT ![name] = f])) /\ IsResult(c, Err([c EXCEPT ![name] = f]))
<1> DEFINE d == [c EXCEPT ![name] = f]
<1>1. d.channels = c.channels
    BY DEF IsChain
<1>2. IsChain(d)
    <2>1. CASE name = "native"
        BY <2>1 DEF IsChain
    <2>2. CASE name = "token"
        BY <2>2 DEF IsChain
    <2>3. QED
        BY <2>1, <2>2
<1>3. QED
    BY <1>1, <1>2, SameOrder DEF IsResult, Ok, Err

\* Registering a node with a safe.
LEMMA RegisterSafeResult ==
    ASSUME NEW c, IsChain(c), NEW tx \in [action : {"RegisterSafe"}, sender : Nodes, safe : Safes]
    PROVE  IsResult(c, RegisterSafe(c, tx))
<1>1. CASE tx.safe \notin DOMAIN c.registered \/ tx.sender \in c.registered[tx.safe]
    BY <1>1, ErrIsResult DEF RegisterSafe
<1>2. CASE tx.safe \in DOMAIN c.registered /\ tx.sender \notin c.registered[tx.safe]
    <2> DEFINE d == [c EXCEPT
            !.registered[tx.safe] = @ \cup {tx.sender},
            !.account = [n \in DOMAIN @ |-> IF n = tx.sender THEN tx.safe ELSE @[n]]]
    <2>1. RegisterSafe(c, tx) = Ok(d)
        BY <1>2 DEF RegisterSafe
    <2>2. /\ DOMAIN d = DOMAIN c
          /\ d.native = c.native /\ d.token = c.token /\ d.allowance = c.allowance
          /\ d.redeemed = c.redeemed /\ d.channels = c.channels /\ d.txCounts = c.txCounts
        BY DEF IsChain
    <2>3. d.account = [n \in DOMAIN c.account |-> IF n = tx.sender THEN tx.safe ELSE c.account[n]]
        BY DEF IsChain
    <2>4. d.registered = [c.registered EXCEPT ![tx.safe] = @ \cup {tx.sender}]
        BY DEF IsChain
    <2>5. tx.sender \in Nodes /\ tx.safe \in Safes
        OBVIOUS
    <2> HIDE DEF d
    <2>6. IsChain(d)
        BY <2>2, <2>3, <2>4, <2>5, <1>2 DEF IsChain
    <2>7. QED
        BY <2>1, <2>2, <2>6, SameOrder DEF IsResult, Ok
<1>3. QED
    BY <1>1, <1>2

\* Announcing an account, known or new.
LEMMA AnnounceResult ==
    ASSUME NEW c, IsChain(c),
           NEW tx \in [action : {"Announce"}, sender : Nodes, emptyAddress : BOOLEAN]
    PROVE  IsResult(c, Announce(c, tx))
<1>1. CASE tx.sender \in DOMAIN c.account
    BY <1>1, ErrIsResult DEF Announce
<1>2. CASE tx.sender \notin DOMAIN c.account
    <2> DEFINE d == [c EXCEPT !.account = Put(@, tx.sender, Owned[tx.sender])]
    <2>1. Announce(c, tx) = Ok(d)
        BY <1>2 DEF Announce
    <2>2. /\ DOMAIN d = DOMAIN c
          /\ d.native = c.native /\ d.token = c.token /\ d.allowance = c.allowance
          /\ d.redeemed = c.redeemed /\ d.channels = c.channels /\ d.txCounts = c.txCounts
          /\ d.registered = c.registered
          /\ d.account = Put(c.account, tx.sender, Owned[tx.sender])
        BY DEF IsChain
    <2>3. tx.sender \in Nodes /\ Owned[tx.sender] \in Safes \cup {NoSafe}
        BY DEF Safes
    <2> HIDE DEF d
    <2>4. IsChain(d)
        BY <2>2, <2>3 DEF IsChain, Put
    <2>5. QED
        BY <2>1, <2>2, <2>4, SameOrder DEF IsResult, Ok
<1>3. QED
    BY <1>1, <1>2

\* Withdrawing from the signer's purse or from its safe's.
LEMMA WithdrawResult ==
    ASSUME NEW c, IsChain(c),
           NEW tx \in [action : {"Withdraw"}, sender : Nodes, purse : {"native", "token"},
                       payer : {"Eoa", "Safe"}, destination : Nodes \cup Safes, amount : Nat]
    PROVE  IsResult(c, Withdraw(c, tx))
<1> DEFINE payer == IF tx.payer = "Eoa" THEN tx.sender ELSE SafeOf(c, tx.sender)
           f == Credit(Debit(c[tx.purse], payer, tx.amount), tx.destination, tx.amount)
<1>1. IsPurse(c[tx.purse], Nodes \cup Safes)
    BY DEF IsChain
<1>2. CASE Holds(c[tx.purse], payer, tx.amount)
    <2>1. tx.amount \in Nat /\ tx.destination \in Nodes \cup Safes /\ tx.purse \in {"native", "token"}
        OBVIOUS
    <2>2. Withdraw(c, tx) = Ok([c EXCEPT ![tx.purse] = f])
        BY <1>2 DEF Withdraw
    <2> HIDE DEF payer
    <2>3. IsPurse(Debit(c[tx.purse], payer, tx.amount), Nodes \cup Safes)
        BY <1>1, <1>2, <2>1, DebitedPurse
    <2>4. IsPurse(f, Nodes \cup Safes)
        BY <2>1, <2>3, CreditedPurse
    <2> HIDE DEF f
    <2>5. QED
        BY <2>1, <2>2, <2>4, ChainWithPurse
<1>3. CASE ~Holds(c[tx.purse], payer, tx.amount)
    BY <1>3, ErrIsResult DEF Withdraw
<1>4. QED
    BY <1>2, <1>3

\* Setting the allowance of the signer's safe.
LEMMA ApproveResult ==
    ASSUME NEW c, IsChain(c),
           NEW tx \in [action : {"Approve"}, sender : Nodes, payer : {"Eoa", "Safe"},
                       toChannels : BOOLEAN, amount : Nat]
    PROVE  IsResult(c, Approve(c, tx))
<1> DEFINE safe == SafeOf(c, tx.sender)
           d == [c EXCEPT !.allowance[safe] = tx.amount]
<1>1. \/ Approve(c, tx) \in {Ok(c), Err(c)}
      \/ Approve(c, tx) = Ok(d) /\ safe \in DOMAIN c.allowance
    BY DEF Approve
<1>2. ASSUME safe \in DOMAIN c.allowance
      PROVE  IsResult(c, Ok(d))
    <2>1. /\ DOMAIN d = DOMAIN c
          /\ d.native = c.native /\ d.token = c.token /\ d.redeemed = c.redeemed
          /\ d.channels = c.channels /\ d.txCounts = c.txCounts
          /\ d.registered = c.registered /\ d.account = c.account
          /\ d.allowance = [c.allowance EXCEPT ![safe] = tx.amount]
        BY DEF IsChain
    <2>2. tx.amount \in Nat
        OBVIOUS
    <2> HIDE DEF d, safe
    <2>3. IsPurse(d.allowance, Safes)
        BY <2>1, <2>2, <1>2 DEF IsChain, IsPurse
    <2>4. IsChain(d)
        BY <2>1, <2>3 DEF IsChain
    <2>5. QED
        BY <2>1, <2>4, SameOrder DEF IsResult, Ok
<1>3. QED
    BY <1>1, <1>2, ErrIsResult

\* One channel is replaced or created and no other is touched.
LEMMA ChannelsWith ==
    ASSUME NEW f, AreEntries(f), NEW id \in ChannelIds, NEW e \in Entry,
           id \in DOMAIN f =>
               \/ e.epoch > f[id].epoch
               \/ /\ e.epoch = f[id].epoch
                  /\ e.index >= f[id].index
                  /\ e.balance < f[id].balance => e.index > f[id].index
    PROVE  /\ AreEntries(Put(f, id, e))
           /\ EpochOrder(f, Put(f, id, e))
<1>1. /\ DOMAIN Put(f, id, e) = DOMAIN f \cup {id}
      /\ Put(f, id, e)[id] = e
      /\ \A x \in DOMAIN f : x # id => Put(f, id, e)[x] = f[x]
    BY DEF Put
<1>2. AreEntries(Put(f, id, e))
    BY <1>1 DEF AreEntries
<1>3. ASSUME NEW x \in DOMAIN f, x # id
      PROVE  /\ Put(f, id, e)[x].epoch = f[x].epoch
             /\ Put(f, id, e)[x].index >= f[x].index
             /\ ~(Put(f, id, e)[x].balance < f[x].balance)
    BY <1>1, <1>3 DEF AreEntries, Entry
<1>4. QED
    BY <1>1, <1>2, <1>3 DEF EpochOrder

\* Replacing a channel that exists, as EXCEPT writes it.
LEMMA ExceptIsPut ==
    ASSUME NEW f, NEW id \in DOMAIN f, NEW e
    PROVE  [f EXCEPT ![id] = e] = Put(f, id, e)
BY DEF Put

\* Funding moves a closed channel to its next epoch and only adds to any other.
LEMMA FundedEntry ==
    ASSUME NEW channel \in Entry, NEW stake \in Nat
    PROVE  /\ Funded(channel, stake) \in Entry
           /\ \/ Funded(channel, stake).epoch > channel.epoch
              \/ /\ Funded(channel, stake).epoch = channel.epoch
                 /\ Funded(channel, stake).index = channel.index
                 /\ Funded(channel, stake).balance >= channel.balance
<1>1. channel.balance + stake \in Nat /\ channel.epoch + 1 \in Nat \ {0}
    BY DEF Entry
<1>2. CASE channel.status = "Closed"
    <2> DEFINE reopened == [channel EXCEPT !.status = "Open", !.index = 0,
                                           !.closure = 0, !.epoch = @ + 1]
    <2>1. reopened \in Entry /\ reopened.epoch = channel.epoch + 1
        BY <1>1 DEF Entry
    <2>2. Funded(channel, stake) = [reopened EXCEPT !.balance = @ + stake]
        BY <1>2 DEF Funded
    <2> HIDE DEF reopened
    <2>3. reopened.balance + stake \in Nat
        BY <2>1 DEF Entry
    <2>4. Funded(channel, stake) \in Entry /\ Funded(channel, stake).epoch = reopened.epoch
        BY <2>1, <2>2, <2>3 DEF Entry
    <2>5. reopened.epoch > channel.epoch
        BY <2>1 DEF Entry
    <2>6. QED
        BY <2>4, <2>5
<1>3. CASE channel.status # "Closed"
    BY <1>1, <1>3 DEF Entry, Funded
<1>4. QED
    BY <1>2, <1>3

\* Funding a channel, also when it fails after the debit of the safe.
LEMMA FundChannelResult ==
    ASSUME NEW c, IsChain(c),
           NEW tx \in [action : {"FundChannel"}, sender : Nodes, destination : Nodes, stake : Nat],
           tx.sender # tx.destination
    PROVE  IsResult(c, FundChannel(c, tx))
<1> DEFINE safe == SafeOf(c, tx.sender)
           id == <<tx.sender, tx.destination>>
           channel == IF id \in DOMAIN c.channels THEN c.channels[id] ELSE NewChannel
           debited == [c EXCEPT !.token = Debit(@, safe, tx.stake)]
           d == [debited EXCEPT
                    !.allowance = Debit(@, safe, tx.stake),
                    !.channels = Put(@, id, Funded(channel, tx.stake))]
<1>1. id \in ChannelIds /\ tx.stake \in Nat
    BY DEF ChannelIds
<1>2. CASE /\ FundChannel(c, tx) = Err(debited)
           /\ Holds(c.token, safe, tx.stake)
    <2>1. IsPurse(Debit(c.token, safe, tx.stake), Nodes \cup Safes)
        BY <1>1, <1>2, DebitedPurse DEF IsChain
    <2>2. QED
        BY <1>2, <2>1, ChainWithPurse
<1>3. CASE /\ FundChannel(c, tx) = Ok(d)
           /\ Holds(c.token, safe, tx.stake)
           /\ Holds(c.allowance, safe, tx.stake)
    <2>1. IsPurse(Debit(c.token, safe, tx.stake), Nodes \cup Safes)
        BY <1>1, <1>3, DebitedPurse DEF IsChain
    <2>2. IsPurse(Debit(c.allowance, safe, tx.stake), Safes)
        BY <1>1, <1>3, DebitedPurse DEF IsChain
    <2>3. channel \in Entry /\ (id \in DOMAIN c.channels => channel = c.channels[id])
        BY DEF NewChannel, Entry, IsChain, AreEntries
    <2>4. /\ DOMAIN d = DOMAIN c
          /\ d.native = c.native /\ d.redeemed = c.redeemed /\ d.txCounts = c.txCounts
          /\ d.registered = c.registered /\ d.account = c.account
          /\ d.token = Debit(c.token, safe, tx.stake)
          /\ d.allowance = Debit(c.allowance, safe, tx.stake)
          /\ d.channels = Put(c.channels, id, Funded(channel, tx.stake))
        <3> HIDE DEF channel, id, safe
        <3>1. QED
            BY DEF IsChain
    <2> HIDE DEF d, channel, id, safe
    <2>5. /\ AreEntries(d.channels)
          /\ EpochOrder(c.channels, d.channels)
        <3> DEFINE e == Funded(channel, tx.stake)
        <3>1. e \in Entry
            BY <1>1, <2>3, FundedEntry
        <3>2. \/ e.epoch > channel.epoch
              \/ e.epoch = channel.epoch /\ e.index = channel.index /\ e.balance >= channel.balance
            BY <1>1, <2>3, FundedEntry
        <3> HIDE DEF e
        <3>3. \/ e.epoch > channel.epoch
              \/ /\ e.epoch = channel.epoch
                 /\ e.index >= channel.index
                 /\ e.balance < channel.balance => e.index > channel.index
            BY <3>1, <3>2, <2>3 DEF Entry
        <3>4. d.channels = Put(c.channels, id, e) /\ AreEntries(c.channels)
            BY <2>4 DEF e, IsChain
        <3>5. QED
            BY <1>1, <2>3, <3>1, <3>3, <3>4, ChannelsWith
    <2>6. IsChain(d)
        BY <2>1, <2>2, <2>4, <2>5 DEF IsChain
    <2>7. QED
        BY <1>3, <2>5, <2>6 DEF IsResult, Ok
<1>4. CASE FundChannel(c, tx) = Err(c)
    BY <1>4, ErrIsResult
<1>5. QED
    BY <1>2, <1>3, <1>4 DEF FundChannel

\* The three closing transactions change the status and the closure time only.
LEMMA ClosureResult ==
    ASSUME NEW c, IsChain(c), NEW id, NEW e,
           id \in DOMAIN c.channels => 
               /\ e \in Entry
               /\ e.epoch = c.channels[id].epoch
               /\ e.index = c.channels[id].index
               /\ e.balance = c.channels[id].balance
    PROVE  id \in DOMAIN c.channels => IsResult(c, Ok([c EXCEPT !.channels = Put(@, id, e)]))
<1>1. SUFFICES ASSUME id \in DOMAIN c.channels
               PROVE  IsResult(c, Ok([c EXCEPT !.channels = Put(@, id, e)]))
    OBVIOUS
<1> DEFINE d == [c EXCEPT !.channels = Put(@, id, e)]
<1>2. /\ DOMAIN d = DOMAIN c
      /\ d.native = c.native /\ d.token = c.token /\ d.allowance = c.allowance
      /\ d.redeemed = c.redeemed /\ d.txCounts = c.txCounts
      /\ d.registered = c.registered /\ d.account = c.account
      /\ d.channels = Put(c.channels, id, e)
    BY DEF IsChain
<1> HIDE DEF d
<1>3. /\ id \in ChannelIds /\ c.channels[id] \in Entry /\ e \in Entry
      /\ AreEntries(c.channels)
    BY <1>1 DEF IsChain, AreEntries
<1>4. /\ e.epoch = c.channels[id].epoch
      /\ e.index >= c.channels[id].index
      /\ ~(e.balance < c.channels[id].balance)
    BY <1>1, <1>3 DEF Entry
<1>5. AreEntries(d.channels) /\ EpochOrder(c.channels, d.channels)
    BY <1>1, <1>2, <1>3, <1>4, ChannelsWith
<1>6. IsChain(d)
    BY <1>2, <1>5 DEF IsChain
<1>7. QED
    BY <1>5, <1>6 DEF IsResult, Ok, d

\* Initiating, finalizing and closing from the other end.
LEMMA ClosuresResult ==
    ASSUME NEW c, IsChain(c),
           NEW tx \in [action : {"InitializeChannelClosure", "FinalizeChannelClosure",
                                 "IncomingChannelClosure"},
                       sender : Nodes, id : ChannelIds, closure : Nat]
    PROVE  /\ IsResult(c, InitializeChannelClosure(c, tx))
           /\ IsResult(c, FinalizeChannelClosure(c, tx))
           /\ IsResult(c, IncomingChannelClosure(c, tx))
<1>1. CASE tx.id \notin DOMAIN c.channels
    BY <1>1, ErrIsResult DEF InitializeChannelClosure, FinalizeChannelClosure, IncomingChannelClosure
<1>2. CASE tx.id \in DOMAIN c.channels
    <2> DEFINE old == c.channels[tx.id]
               pending == [old EXCEPT !.status = "PendingToClose", !.closure = tx.closure]
               closed == [old EXCEPT !.status = "Closed"]
    <2>1. old \in Entry /\ tx.closure \in Nat
        BY <1>2 DEF IsChain, AreEntries
    <2>2. /\ pending \in Entry /\ pending.epoch = old.epoch /\ pending.index = old.index
          /\ pending.balance = old.balance
          /\ closed \in Entry /\ closed.epoch = old.epoch /\ closed.index = old.index
          /\ closed.balance = old.balance
        <3> HIDE DEF old
        <3>1. QED
            BY <2>1 DEF Entry
    <2>3. /\ InitializeChannelClosure(c, tx) = Ok([c EXCEPT !.channels = Put(@, tx.id, pending)])
          /\ FinalizeChannelClosure(c, tx) \in {Err(c), Ok([c EXCEPT !.channels = Put(@, tx.id, closed)])}
          /\ IncomingChannelClosure(c, tx) = Ok([c EXCEPT !.channels = Put(@, tx.id, closed)])
        <3>1. /\ InitializeChannelClosure(c, tx) =
                   Ok([c EXCEPT !.channels = [c.channels EXCEPT ![tx.id] = pending]])
              /\ FinalizeChannelClosure(c, tx) \in
                   {Err(c), Ok([c EXCEPT !.channels = [c.channels EXCEPT ![tx.id] = closed]])}
              /\ IncomingChannelClosure(c, tx) =
                   Ok([c EXCEPT !.channels = [c.channels EXCEPT ![tx.id] = closed]])
            BY <1>2 DEF InitializeChannelClosure, FinalizeChannelClosure, IncomingChannelClosure, IsChain
        <3> HIDE DEF pending, closed
        <3>2. QED
            BY <3>1, <1>2, ExceptIsPut
    <2> HIDE DEF pending, closed
    <2>4. /\ IsResult(c, Ok([c EXCEPT !.channels = Put(@, tx.id, pending)]))
          /\ IsResult(c, Ok([c EXCEPT !.channels = Put(@, tx.id, closed)]))
        BY <1>2, <2>2, ClosureResult
    <2>5. QED
        BY <2>3, <2>4, ErrIsResult
<1>3. QED
    BY <1>1, <1>2

\* A ticket moves its channel's index on, its value into the channel back, to the
\* destination's safe or nowhere.
LEMMA RedeemTicketResult ==
    ASSUME NEW c, IsChain(c),
           NEW tx \in [action : {"RedeemTicket"}, sender : Nodes, id : ChannelIds,
                       index : Nat, amount : Nat]
    PROVE  IsResult(c, RedeemTicket(c, tx))
<1> DEFINE old == c.channels[tx.id]
           e == Redeemed(old, tx)
           mid == [c EXCEPT !.channels = Put(@, tx.id, e)]
           back == Opposite(tx.id)
           safe == SafeOf(mid, tx.id[2])
<1>1. CASE RedeemTicket(c, tx) = Err(c)
    BY <1>1, ErrIsResult
<1>2. CASE /\ tx.id \in DOMAIN c.channels
           /\ ~(old.index > tx.index) /\ ~(old.balance < tx.amount)
           /\ RedeemTicket(c, tx) = Ok(PaidOut([c EXCEPT !.channels[tx.id] = Redeemed(@, tx)], tx))
    <2>1. /\ old \in Entry /\ tx.amount \in Nat /\ tx.index \in Nat /\ tx.id \in ChannelIds
          /\ AreEntries(c.channels)
        BY <1>2 DEF IsChain, AreEntries
    <2>2. e \in Entry /\ e.epoch = old.epoch /\ e.index = tx.index + 1
        <3>1. old.balance - tx.amount \in Nat /\ tx.index + 1 \in Nat
            BY <1>2, <2>1 DEF Entry
        <3> HIDE DEF old
        <3>2. QED
            BY <2>1, <3>1 DEF Entry, Redeemed
    <2>3. e.index > old.index
        BY <1>2, <2>1, <2>2 DEF Entry
    <2>4. [c EXCEPT !.channels[tx.id] = Redeemed(@, tx)] = mid
        <3>1. [c EXCEPT !.channels[tx.id] = Redeemed(@, tx)]
                = [c EXCEPT !.channels = [c.channels EXCEPT ![tx.id] = e]]
            BY DEF IsChain
        <3> HIDE DEF e
        <3>2. QED
            BY <3>1, <1>2, ExceptIsPut
    <2> HIDE DEF e
    <2>5. /\ DOMAIN mid = DOMAIN c
          /\ mid.native = c.native /\ mid.token = c.token /\ mid.allowance = c.allowance
          /\ mid.redeemed = c.redeemed /\ mid.txCounts = c.txCounts
          /\ mid.registered = c.registered /\ mid.account = c.account
          /\ mid.channels = Put(c.channels, tx.id, e)
        BY DEF IsChain
    <2>6. AreEntries(mid.channels) /\ EpochOrder(c.channels, mid.channels)
        <3>1. e.epoch = old.epoch /\ e.index >= old.index /\ e.index > old.index
            BY <2>1, <2>2, <2>3 DEF Entry
        <3> HIDE DEF mid
        <3>2. QED
            BY <3>1, <2>1, <2>2, <2>5, ChannelsWith
    <2> HIDE DEF mid
    <2>7. IsChain(mid)
        BY <2>5, <2>6 DEF IsChain
    <2>8. IsResult(c, Ok(mid))
        BY <2>6, <2>7 DEF IsResult, Ok
    <2>9. CASE back \in DOMAIN mid.channels
        <3> DEFINE m == mid.channels[back]
                   g == [m EXCEPT !.balance = @ + tx.amount]
                   d == [mid EXCEPT !.channels = Put(@, back, g)]
        <3>1. m \in Entry
            BY <2>6, <2>9 DEF AreEntries
        <3>2. /\ g \in Entry /\ g.epoch = m.epoch /\ g.index = m.index
              /\ g.balance = m.balance + tx.amount
            <4>1. m.balance + tx.amount \in Nat
                BY <3>1, <2>1 DEF Entry
            <4> HIDE DEF m
            <4>2. QED
                BY <3>1, <4>1 DEF Entry
        <3>3. PaidOut(mid, tx) = d
            <4>1. PaidOut(mid, tx) = [mid EXCEPT !.channels = [mid.channels EXCEPT ![back] = g]]
                BY <2>9, <2>7 DEF PaidOut, IsChain
            <4> HIDE DEF g, back
            <4>2. QED
                BY <4>1, <2>9, ExceptIsPut
        <3>4. back # tx.id /\ back \in ChannelIds
            <4>1. tx.id[1] # tx.id[2] /\ tx.id[1] \in Nodes /\ tx.id[2] \in Nodes
                BY <2>1 DEF ChannelIds
            <4>2. QED
                BY <4>1 DEF Opposite, ChannelIds
        <3> HIDE DEF g, back
        <3>5. /\ DOMAIN d = DOMAIN mid
              /\ d.native = mid.native /\ d.token = mid.token /\ d.allowance = mid.allowance
              /\ d.redeemed = mid.redeemed /\ d.txCounts = mid.txCounts
              /\ d.registered = mid.registered /\ d.account = mid.account
              /\ d.channels = Put(mid.channels, back, g)
            BY <2>7 DEF IsChain
        <3> HIDE DEF d
        <3>6. m = c.channels[back] /\ back \in DOMAIN c.channels
            BY <2>9, <2>5, <3>4 DEF Put
        <3>7. AreEntries(d.channels)
            <4>1. /\ g.epoch = m.epoch /\ g.index >= m.index
                  /\ ~(g.balance < m.balance)
                BY <3>1, <3>2, <2>1 DEF Entry
            <4>2. QED
                BY <4>1, <2>6, <3>2, <3>4, <3>5, ChannelsWith
        <3>8. EpochOrder(c.channels, d.channels)
            <4>1. /\ g.epoch = m.epoch /\ g.index >= m.index
                  /\ ~(g.balance < m.balance)
                BY <3>1, <3>2, <2>1 DEF Entry
            <4>2. DOMAIN d.channels = DOMAIN mid.channels
                BY <3>5, <2>9 DEF Put
            <4>3. d.channels[back] = g
                BY <3>5 DEF Put
            <4>4. \A x \in DOMAIN c.channels : x # back => d.channels[x] = mid.channels[x]
                BY <2>5, <3>5 DEF Put
            <4>5. DOMAIN c.channels \subseteq DOMAIN mid.channels
                BY <2>5 DEF Put
            <4>6. ASSUME NEW x \in DOMAIN c.channels
                  PROVE  /\ x \in DOMAIN d.channels
                         /\ \/ d.channels[x].epoch > c.channels[x].epoch
                            \/ /\ d.channels[x].epoch = c.channels[x].epoch
                               /\ d.channels[x].index >= c.channels[x].index
                               /\ d.channels[x].balance < c.channels[x].balance
                                    => d.channels[x].index > c.channels[x].index
                <5>1. CASE x = back
                    BY <5>1, <4>1, <4>2, <4>3, <3>6, <2>9
                <5>2. CASE x # back
                    BY <5>2, <4>2, <4>4, <4>5, <2>6 DEF EpochOrder
                <5>3. QED
                    BY <5>1, <5>2
            <4>7. QED
                BY <4>6 DEF EpochOrder
        <3>9. IsChain(d)
            BY <2>7, <3>5, <3>7 DEF IsChain
        <3>10. QED
            BY <1>2, <2>4, <3>3, <3>8, <3>9 DEF IsResult, Ok
    <2>10. CASE back \notin DOMAIN mid.channels /\ safe \in DOMAIN mid.token
        <3> DEFINE d == [mid EXCEPT !.token[safe] = @ + tx.amount,
                                    !.redeemed = Credit(@, safe, tx.amount)]
        <3>1. PaidOut(mid, tx) = d
            BY <2>10 DEF PaidOut
        <3>2. safe \in Safes
            BY <2>7, <2>10, SafeOfType, EmulatorAssumption DEF IsChain, IsPurse, Safes
        <3> HIDE DEF safe
        <3>3. /\ DOMAIN d = DOMAIN mid
              /\ d.native = mid.native /\ d.allowance = mid.allowance
              /\ d.txCounts = mid.txCounts /\ d.channels = mid.channels
              /\ d.registered = mid.registered /\ d.account = mid.account
              /\ d.token = [mid.token EXCEPT ![safe] = @ + tx.amount]
              /\ d.redeemed = Credit(mid.redeemed, safe, tx.amount)
            BY <2>7 DEF IsChain
        <3> HIDE DEF d
        <3>4. IsPurse(d.redeemed, Safes)
            BY <3>2, <3>3, <2>1, <2>7, CreditedPurse DEF IsChain
        <3>5. IsPurse(d.token, Nodes \cup Safes)
            <4>1. IsPurse(mid.token, Nodes \cup Safes)
                BY <2>7 DEF IsChain
            <4>2. mid.token[safe] + tx.amount \in Nat
                BY <4>1, <2>1, <2>10 DEF IsPurse
            <4>3. QED
                BY <4>1, <4>2, <3>3 DEF IsPurse
        <3>6. IsChain(d)
            BY <2>7, <3>3, <3>4, <3>5 DEF IsChain
        <3>7. QED
            BY <1>2, <2>4, <2>6, <3>1, <3>3, <3>6 DEF IsResult, Ok
    <2>11. CASE back \notin DOMAIN mid.channels /\ safe \notin DOMAIN mid.token
        BY <1>2, <2>4, <2>8, <2>11 DEF PaidOut
    <2>12. QED
        BY <2>9, <2>10, <2>11
<1>3. QED
    BY <1>1, <1>2 DEF RedeemTicket

\* Every transaction, whether it succeeds or fails half-way.
LEMMA EffectResult ==
    ASSUME NEW c, IsChain(c), NEW tx \in Txs
    PROVE  IsResult(c, Effect(c, tx)) /\ tx.sender \in Nodes
<1>1. CASE tx \in [action : {"RegisterSafe"}, sender : Nodes, safe : Safes]
    <2>1. Effect(c, tx) = RegisterSafe(c, tx)
        BY <1>1 DEF Effect
    <2>2. QED
        BY <1>1, <2>1, RegisterSafeResult
<1>2. CASE tx \in [action : {"Announce"}, sender : Nodes, emptyAddress : BOOLEAN]
    <2>1. Effect(c, tx) = Announce(c, tx)
        BY <1>2 DEF Effect
    <2>2. QED
        BY <1>2, <2>1, AnnounceResult
<1>3. CASE tx \in [action : {"Withdraw"}, sender : Nodes, purse : {"native", "token"},
                   payer : {"Eoa", "Safe"}, destination : Nodes \cup Safes, amount : Nat]
    <2>1. Effect(c, tx) = Withdraw(c, tx)
        BY <1>3 DEF Effect
    <2>2. QED
        BY <1>3, <2>1, WithdrawResult
<1>4. CASE tx \in [action : {"Approve"}, sender : Nodes, payer : {"Eoa", "Safe"},
                   toChannels : BOOLEAN, amount : Nat]
    <2>1. Effect(c, tx) = Approve(c, tx)
        BY <1>4 DEF Effect
    <2>2. QED
        BY <1>4, <2>1, ApproveResult
<1>5. CASE /\ tx \in [action : {"FundChannel"}, sender : Nodes, destination : Nodes, stake : Nat]
           /\ tx.sender # tx.destination
    <2>1. Effect(c, tx) = FundChannel(c, tx)
        BY <1>5 DEF Effect
    <2>2. QED
        BY <1>5, <2>1, FundChannelResult
<1>6. CASE tx \in [action : {"InitializeChannelClosure", "FinalizeChannelClosure",
                             "IncomingChannelClosure"},
                   sender : Nodes, id : ChannelIds, closure : Nat]
    <2>1. Effect(c, tx) \in {InitializeChannelClosure(c, tx), FinalizeChannelClosure(c, tx),
                             IncomingChannelClosure(c, tx)}
        BY <1>6 DEF Effect
    <2>2. QED
        BY <1>6, <2>1, ClosuresResult
<1>7. CASE tx \in [action : {"RedeemTicket"}, sender : Nodes, id : ChannelIds,
                   index : Nat, amount : Nat]
    <2>1. Effect(c, tx) = RedeemTicket(c, tx)
        BY <1>7 DEF Effect
    <2>2. QED
        BY <1>7, <2>1, RedeemTicketResult
<1>8. QED
    BY <1>1, <1>2, <1>3, <1>4, <1>5, <1>6, <1>7 DEF Txs

\* The count and the fee touch no channel.
LEMMA ChargedResult ==
    ASSUME NEW c, IsChain(c), NEW sender \in Nodes
    PROVE  /\ Charged(c, sender).ok \in BOOLEAN
           /\ IsChain(Charged(c, sender).chain)
           /\ Charged(c, sender).chain.channels = c.channels
<1> DEFINE counted == [c EXCEPT !.txCounts[sender] = @ + 1]
           d == [counted EXCEPT !.native = Debit(@, sender, EmulatedTxPrice)]
<1>1. /\ DOMAIN counted = DOMAIN c
      /\ counted.native = c.native /\ counted.token = c.token /\ counted.allowance = c.allowance
      /\ counted.redeemed = c.redeemed /\ counted.channels = c.channels
      /\ counted.registered = c.registered /\ counted.account = c.account
      /\ counted.txCounts = [c.txCounts EXCEPT ![sender] = @ + 1]
    BY DEF IsChain
<1> HIDE DEF counted
<1>2. IsChain(counted)
    <2>1. c.txCounts \in [Nodes -> Nat]
        BY DEF IsChain
    <2>2. c.txCounts[sender] + 1 \in Nat
        BY <2>1
    <2>3. counted.txCounts \in [Nodes -> Nat]
        BY <1>1, <2>1, <2>2
    <2>4. QED
        BY <1>1, <2>3 DEF IsChain
<1>3. CASE Holds(c.native, sender, EmulatedTxPrice)
    <2>1. Charged(c, sender) = Ok(d)
        BY <1>3 DEF Charged, counted
    <2>2. d.channels = counted.channels
        BY <1>2 DEF IsChain
    <2>3. IsPurse(Debit(counted.native, sender, EmulatedTxPrice), Nodes \cup Safes)
        <3>1. EmulatedTxPrice \in Nat
            BY DEF EmulatedTxPrice
        <3>2. QED
            BY <1>1, <1>2, <1>3, <3>1, DebitedPurse DEF IsChain
    <2>4. d = [counted EXCEPT !["native"] = Debit(counted.native, sender, EmulatedTxPrice)]
        OBVIOUS
    <2> HIDE DEF d
    <2>5. IsResult(counted, Ok(d))
        BY <1>2, <2>3, <2>4, ChainWithPurse
    <2>6. Ok(d).ok = TRUE /\ Ok(d).chain = d
        BY DEF Ok
    <2>7. IsChain(d)
        BY <2>5, <2>6 DEF IsResult
    <2>8. QED
        BY <1>1, <2>1, <2>2, <2>6, <2>7
<1>4. CASE ~Holds(c.native, sender, EmulatedTxPrice)
    <2>1. Charged(c, sender) = Err(counted)
        BY <1>4 DEF Charged, counted
    <2>2. QED
        BY <1>1, <1>2, <2>1 DEF Err
<1>5. QED
    BY <1>3, <1>4

\* What the client commits, in any outcome, is a state with the tickets in order.
LEMMA CommittedResult ==
    ASSUME NEW c, IsChain(c), NEW tx \in Txs, NEW r \in Committed(c, tx)
    PROVE  IsChain(r.chain) /\ EpochOrder(c.channels, r.chain.channels)
<1> DEFINE effect == Effect(c, tx)
           charged == IF effect.ok THEN Charged(effect.chain, tx.sender) ELSE effect
<1>1. IsResult(c, effect) /\ tx.sender \in Nodes
    BY EffectResult
<1> HIDE DEF effect
<1>2. IsChain(charged.chain) /\ EpochOrder(c.channels, charged.chain.channels)
    <2>1. IsChain(effect.chain)
        BY <1>1 DEF IsResult
    <2>2. QED
        BY <1>1, <2>1, ChargedResult DEF IsResult
<1> HIDE DEF charged
<1>3. \A s \in UpdateState(c, tx) : s = charged \/ s = Err(charged.chain)
    BY DEF UpdateState, effect, charged
<1>4. PICK s \in UpdateState(c, tx) : r = s \/ r = Err(c)
    BY DEF Committed
<1>5. r = charged \/ r = Err(charged.chain) \/ r = Err(c)
    BY <1>3, <1>4
<1>6. QED
    BY <1>2, <1>5, SameOrder DEF Err

\* A step either leaves the chain alone or commits one transaction.
LEMMA ChainSteps ==
    ASSUME CallsInv, [Next]_vars
    PROVE  \/ chain' = chain
           \/ \E tx \in Txs, outcome \in BOOLEAN : Commit(tx, outcome)
<1>1. ASSUME PeerTx
      PROVE  \E tx \in Txs, outcome \in BOOLEAN : Commit(tx, outcome)
    BY <1>1, TxsAssumption DEF PeerTx
<1>2. ASSUME NEW k \in Calls, SendTx(k)
      PROVE  \E tx \in Txs, outcome \in BOOLEAN : Commit(tx, outcome)
    <2>1. call[k].tx \in Txs
        BY <1>2 DEF SendTx, CallsInv
    <2>2. PICK outcome \in BOOLEAN : Commit(call[k].tx, outcome)
        BY <1>2 DEF SendTx
    <2>3. QED
        BY <2>1, <2>2
<1>3. ASSUME NEW k \in Calls,
             \/ OpenChannel(k) \/ FundKnownChannel(k) \/ CloseChannel(k)
      PROVE  chain' = chain
    BY <1>3 DEF OpenChannel, FundKnownChannel, CloseChannel, Gate
<1>4. ASSUME NEW k \in Calls,
             \/ Submit(k) \/ EnterInFlight(k) \/ AwaitOwnView(k, FALSE) \/ AwaitOwnView(k, TRUE)
             \/ Confirm(k) \/ DropGuard(k) \/ DropFuture(k)
      PROVE  chain' = chain
    BY <1>4 DEF Submit, EnterInFlight, AwaitOwnView, Confirm, DropGuard, DropFuture
<1>5. ASSUME Connect \/ Ingest \/ Broadcast \/ Activate \/ \E id \in ChannelIds : Snapshot(id)
      PROVE  chain' = chain
    BY <1>5 DEF Connect, QueryAccounts, QueryChannels, SubscribeGraph, Ingest, Broadcast, Activate, Snapshot
<1>6. CASE UNCHANGED vars
    BY <1>6 DEF vars
<1>7. QED
    BY <1>1, <1>2, <1>3, <1>4, <1>5, <1>6 DEF Next, CallStep

\* A step keeps the chain a chain and its tickets in order.
LEMMA ChainStep ==
    ASSUME CallsInv, IsChain(chain), [Next]_vars
    PROVE  IsChain(chain') /\ EpochOrder(chain.channels, chain'.channels)
<1>1. CASE chain' = chain
    BY <1>1, SameOrder
<1>2. ASSUME NEW tx \in Txs, NEW outcome \in BOOLEAN, Commit(tx, outcome)
      PROVE  IsChain(chain') /\ EpochOrder(chain.channels, chain'.channels)
    BY <1>2, CommittedResult DEF Commit
<1>3. QED
    BY <1>1, <1>2, ChainSteps

\* Whatever transactions of any nodes interleave, fail half-way or are reverted, value
\* leaves a channel only with its ticket index, which restarts only with the epoch.
THEOREM TicketsAreOrdered == Spec => EpochsOrderTickets
<1> DEFINE IInv == CallsInv /\ IsChain(chain)
           Ordered == \A id \in DOMAIN chain.channels :
                        LET old == chain.channels[id]  new == chain'.channels[id]
                        IN  \/ new.epoch > old.epoch
                            \/ /\ new.epoch = old.epoch
                               /\ new.index >= old.index
                               /\ new.balance < old.balance => new.index > old.index
<1>1. ConnectorInit => IInv
    BY CallsStart, EmulatorAssumption DEF ConnectorInit, EmulatorInit
<1>2. IInv /\ [Next]_vars => IInv'
    BY CallsStep, ChainStep
<1>3. IInv /\ [Next]_vars => [Ordered]_vars
    <2>1. SUFFICES ASSUME IInv, [Next]_vars
                   PROVE  Ordered
        OBVIOUS
    <2>2. EpochOrder(chain.channels, chain'.channels)
        BY <2>1, ChainStep
    <2>3. QED
        BY <2>2 DEF EpochOrder
<1>4. QED
    BY <1>1, <1>2, <1>3, PTL DEF Spec, EpochsOrderTickets

------------------------------------------------------------------------------
(* The feed, the cache and what subscribers hear. *)

Update == [id : ChannelIds, entry : Entry]

\* What the feed and the cache hold; nothing is fed before the task subscribed.
FeedInv ==
    /\ IsChain(chain)
    /\ feed \in Seq(Update)
    /\ AreEntries(view)
    /\ phase # "streaming" => feed = <<>>

\* The channels of events that are about to be sent.
Announced(sending) == {event.id : event \in sending}

\* A subscriber: before it is active it has heard of the channels its snapshot passed
\* only, and afterwards it has passed all of them; an event about to be sent tells what
\* the cache says, and so does what the subscriber heard of a channel without such an
\* event of which it has missed none.
EventsInv ==
    /\ passed \subseteq ChannelIds
    /\ active \in BOOLEAN
    /\ active => passed = ChannelIds
    /\ phase \in {"new", "accounts"} => passed = {} /\ DOMAIN events = {} /\ unsent = {}
    /\ DOMAIN events \subseteq DOMAIN view
    /\ ~active => DOMAIN events \subseteq passed
    /\ \A event \in unsent : event.id \in DOMAIN view /\ event.told = Told(view[event.id])
    /\ \A id \in DOMAIN view \ (missed \cup Announced(unsent)) :
         /\ id \in DOMAIN events => events[id] = Told(view[id])
         /\ id \in passed /\ view[id].status = "Open" => id \in DOMAIN events

\* The updates waiting for the task end with what the chain says: of a channel no
\* update is waiting for, the cache says it already.
IsLast(i, id) == feed[i].id = id /\ \A j \in DOMAIN feed : j > i => feed[j].id # id

MirrorInv ==
    /\ view = [id \in DOMAIN view |-> view[id]]
    /\ phase \in {"loaded", "streaming"} => DOMAIN view \subseteq DOMAIN chain.channels
    /\ phase = "streaming" =>
         /\ \A i \in DOMAIN feed : feed[i].id \in DOMAIN chain.channels
         /\ \A id \in DOMAIN chain.channels :
              \/ \E i \in DOMAIN feed : IsLast(i, id) /\ feed[i].entry = chain.channels[id]
              \/ /\ \A i \in DOMAIN feed : feed[i].id # id
                 /\ id \in DOMAIN view
                 /\ view[id] = ConvertChannelModel(chain.channels[id])

\* The ends of cached channels are cached, and no call waits for more than the feed holds.
CacheInv ==
    /\ phase \in {"new", "accounts", "failed"} => DOMAIN view = {}
    /\ \A id \in DOMAIN view : {id[1], id[2]} \subseteq known
    /\ nonce \in Nat
    /\ \A k \in Calls : call[k].behind \in Nat /\ call[k].behind <= Len(feed)

\* The steps that leave the chain, the feed, the cache and the subscriber alone, and
\* those that commit a transaction.
Quiet == UNCHANGED <<chain, connectVars, feed, eventVars>>
Commits ==
    /\ \E tx \in Txs, outcome \in BOOLEAN : Commit(tx, outcome)
    /\ UNCHANGED <<connectVars, eventVars>>

\* Every step is of one kind as far as chain, feed, cache and subscriber go.
LEMMA StepKinds ==
    ASSUME CallsInv, [Next]_vars
    PROVE  \/ Quiet \/ Commits \/ QueryAccounts \/ QueryChannels \/ SubscribeGraph \/ Ingest
           \/ Broadcast \/ Activate \/ \E id \in ChannelIds : Snapshot(id)
<1>1. ASSUME PeerTx
      PROVE  Commits
    BY <1>1, TxsAssumption DEF PeerTx, Commits
<1>2. ASSUME NEW k \in Calls, SendTx(k)
      PROVE  Commits
    <2>1. call[k].tx \in Txs
        BY <1>2 DEF SendTx, CallsInv
    <2>2. PICK outcome \in BOOLEAN : Commit(call[k].tx, outcome)
        BY <1>2 DEF SendTx
    <2>3. UNCHANGED <<connectVars, eventVars>>
        BY <1>2 DEF SendTx
    <2>4. QED
        BY <2>1, <2>2, <2>3 DEF Commits
<1>3. ASSUME NEW k \in Calls,
             \/ OpenChannel(k) \/ FundKnownChannel(k) \/ CloseChannel(k)
      PROVE  Quiet
    BY <1>3 DEF OpenChannel, FundKnownChannel, CloseChannel, Gate, Quiet
<1>4. ASSUME NEW k \in Calls,
             \/ Submit(k) \/ EnterInFlight(k) \/ AwaitOwnView(k, FALSE) \/ AwaitOwnView(k, TRUE)
             \/ Confirm(k) \/ DropGuard(k) \/ DropFuture(k)
      PROVE  Quiet
    BY <1>4 DEF Submit, EnterInFlight, AwaitOwnView, Confirm, DropGuard, DropFuture, Quiet
<1>5. CASE UNCHANGED vars
    BY <1>5 DEF vars, Quiet
<1>6. QED
    BY <1>1, <1>2, <1>3, <1>4, <1>5 DEF Next, CallStep, Connect

\* The updates of a change: one for each channel that changed, with what it says now.
LEMMA UpdatesOfChange ==
    ASSUME NEW old, NEW new, AreEntries(new), NEW u \in Updates(old, new)
    PROVE  /\ u \in Seq(Update)
           /\ \A i \in DOMAIN u :
                /\ u[i].id \in DOMAIN new
                /\ u[i].entry = new[u[i].id]
                /\ u[i].id \notin DOMAIN old \/ new[u[i].id] # old[u[i].id]
           /\ \A i, j \in DOMAIN u : i # j => u[i].id # u[j].id
           /\ \A id \in DOMAIN new :
                id \notin DOMAIN old \/ new[id] # old[id] => \E i \in DOMAIN u : u[i].id = id
<1> DEFINE changed == {id \in DOMAIN new : id \notin DOMAIN old \/ new[id] # old[id]}
           n == Cardinality(changed)
<1>1. changed \subseteq ChannelIds
    BY DEF AreEntries
<1>2. IsFiniteSet(changed) /\ n \in Nat
    <2>1. IsFiniteSet(Nodes \X Nodes)
        BY EmulatorAssumption, FS_Product
    <2>2. changed \subseteq Nodes \X Nodes
        BY <1>1 DEF ChannelIds
    <2>3. QED
        BY <2>1, <2>2, FS_Subset, FS_CardinalityType
<1>3. PICK s \in SetToSeqs(changed) : u = [i \in DOMAIN s |-> [id |-> s[i], entry |-> new[s[i]]]]
    BY DEF Updates
<1>4. s \in [1..n -> changed] /\ \A i, j \in 1..n : i # j => s[i] # s[j]
    BY <1>3 DEF SetToSeqs
<1>5. \A id \in changed : \E i \in 1..n : s[i] = id
    <2>1. SUFFICES ASSUME NEW id \in changed, \A i \in 1..n : s[i] # id
                   PROVE  FALSE
        OBVIOUS
    <2>2. s \in [1..n -> changed \ {id}]
        <3> HIDE DEF changed, n
        <3>1. QED
            BY <1>4, <2>1
    <2>3. /\ IsFiniteSet(changed \ {id}) /\ Cardinality(changed \ {id}) = n - 1
          /\ IsFiniteSet(1..n) /\ Cardinality(1..n) = n
        <3> HIDE DEF changed
        <3>1. IsFiniteSet(changed \ {id}) /\ Cardinality(changed \ {id}) = n - 1
            BY <1>2, <2>1, FS_RemoveElement
        <3> HIDE DEF n
        <3>2. IsFiniteSet(1..n) /\ Cardinality(1..n) = IF 1 > n THEN 0 ELSE n - 1 + 1
            BY <1>2, FS_Interval
        <3>3. QED
            BY <1>2, <3>1, <3>2
    <2> HIDE DEF changed, n
    <2>4. Cardinality(changed \ {id}) < Cardinality(1..n)
        BY <1>2, <2>3
    <2>5. PICK x, y \in 1..n : x # y /\ s[x] = s[y]
        BY <2>2, <2>3, <2>4, FS_PigeonHole
    <2>6. QED
        BY <1>4, <2>5
<1> HIDE DEF n
<1>6. DOMAIN u = 1..n /\ \A i \in 1..n : u[i] = [id |-> s[i], entry |-> new[s[i]]]
    BY <1>3, <1>4
<1>7. ASSUME NEW i \in 1..n
      PROVE  /\ u[i].id = s[i] /\ u[i].entry = new[s[i]] /\ s[i] \in changed
             /\ u[i] \in Update
    <2>1. s[i] \in changed
        BY <1>4
    <2>2. s[i] \in ChannelIds /\ new[s[i]] \in Entry
        BY <2>1 DEF AreEntries
    <2>3. QED
        BY <2>1, <2>2, <1>6 DEF Update
<1>8. u \in Seq(Update)
    <2>1. u = [i \in 1..n |-> u[i]]
        BY <1>3, <1>4
    <2>2. u \in [1..n -> Update]
        BY <2>1, <1>7
    <2>3. QED
        BY <2>2, <1>2
<1>9. QED
    BY <1>4, <1>5, <1>6, <1>7, <1>8

\* What a committed transaction does to the chain and to the feed.
LEMMA CommitEffect ==
    ASSUME FeedInv, Commits
    PROVE  /\ IsChain(chain') /\ EpochOrder(chain.channels, chain'.channels)
           /\ phase' = phase /\ view' = view /\ known' = known
           /\ phase # "streaming" => feed' = feed
           /\ phase = "streaming" =>
                \E u \in Updates(chain.channels, chain'.channels) : feed' = feed \o u
<1>1. PICK tx \in Txs, outcome \in BOOLEAN : Commit(tx, outcome)
    BY DEF Commits
<1>2. IsChain(chain') /\ EpochOrder(chain.channels, chain'.channels)
    BY <1>1, CommittedResult DEF Commit, FeedInv
<1>3. QED
    BY <1>1, <1>2 DEF Commit, Commits, connectVars

\* Converting a channel keeps what a subscriber reads first: status and balance.
LEMMA ConvertedEntry ==
    ASSUME NEW e \in Entry
    PROVE  /\ ConvertChannelModel(e) \in Entry
           /\ ConvertChannelModel(e).status = e.status
           /\ ConvertChannelModel(e).balance = e.balance
BY DEF ConvertChannelModel, Entry

\* The head of the feed and the rest of it.
LEMMA FeedHead ==
    ASSUME FeedInv, feed # <<>>
    PROVE  /\ Head(feed).id \in ChannelIds /\ Head(feed).entry \in Entry
           /\ Head(feed) = feed[1] /\ 1 \in DOMAIN feed
           /\ Tail(feed) \in Seq(Update) /\ Len(Tail(feed)) = Len(feed) - 1
           /\ DOMAIN feed = 1..Len(feed) /\ Len(feed) \in Nat \ {0}
           /\ \A i \in 1..Len(feed) - 1 : Tail(feed)[i] = feed[i + 1]
<1>1. feed \in Seq(Update)
    BY DEF FeedInv
<1>2. Head(feed) \in Update /\ Head(feed) = feed[1] /\ 1 \in DOMAIN feed
    BY <1>1
<1>3. Head(feed).id \in ChannelIds /\ Head(feed).entry \in Entry
    BY <1>2 DEF Update
<1>4. QED
    BY <1>1, <1>2, <1>3

\* At first nothing is fed or cached.
LEMMA FeedStart ==
    ASSUME ConnectorInit
    PROVE  FeedInv
BY EmulatorAssumption DEF ConnectorInit, EmulatorInit, FeedInv, AreEntries

\* Putting an entry under a channel leaves entries.
LEMMA CachedEntries ==
    ASSUME NEW f, AreEntries(f), NEW id \in ChannelIds, NEW e \in Entry
    PROVE  AreEntries(Put(f, id, e))
BY DEF AreEntries, Put

\* Every step keeps the feed and the cache well formed.
LEMMA FeedStep ==
    ASSUME FeedInv, CallsInv, [Next]_vars
    PROVE  FeedInv'
<1>1. CASE Quiet \/ QueryAccounts \/ Broadcast \/ Activate \/ \E id \in ChannelIds : Snapshot(id)
    BY <1>1 DEF Quiet, QueryAccounts, Broadcast, Activate, Snapshot, FeedInv, connectVars
<1>2. CASE QueryChannels
    <2>1. chain' = chain /\ feed' = feed /\ phase = "accounts"
        BY <1>2 DEF QueryChannels
    <2>2. AreEntries(view')
        <3>1. CASE view' = view
            BY <3>1 DEF FeedInv
        <3>2. CASE view' = [id \in DOMAIN chain.channels |-> ConvertChannelModel(chain.channels[id])]
            BY <3>2, ConvertedEntry DEF FeedInv, IsChain, AreEntries
        <3>3. QED
            BY <3>1, <3>2, <1>2 DEF QueryChannels
    <2>3. QED
        BY <2>1, <2>2 DEF FeedInv
<1>3. CASE SubscribeGraph
    <2>1. /\ chain' = chain /\ view' = view /\ phase' = "streaming"
          /\ feed' \in Updates(<<>>, chain.channels)
        BY <1>3 DEF SubscribeGraph
    <2>2. feed' \in Seq(Update)
        BY <2>1, UpdatesOfChange DEF FeedInv, IsChain
    <2>3. QED
        BY <2>1, <2>2 DEF FeedInv
<1>4. CASE Ingest
    <2> DEFINE id == Head(feed).id
               entry == ConvertChannelModel(Head(feed).entry)
    <2>1. /\ feed # <<>> /\ chain' = chain /\ phase' = phase
          /\ feed' = Tail(feed)
          /\ view' = Put(view, id, entry)
        BY <1>4 DEF Ingest
    <2>2. id \in ChannelIds /\ entry \in Entry
        BY <2>1, FeedHead, ConvertedEntry
    <2>3. AreEntries(view')
        BY <2>1, <2>2, CachedEntries DEF FeedInv
    <2>4. Tail(feed) \in Seq(Update)
        BY <2>1, FeedHead
    <2>5. QED
        BY <2>1, <2>3, <2>4 DEF FeedInv
<1>5. CASE Commits
    <2>1. feed' \in Seq(Update)
        <3>1. CASE phase = "streaming"
            <4>1. PICK u \in Updates(chain.channels, chain'.channels) : feed' = feed \o u
                BY <1>5, <3>1, CommitEffect
            <4>2. u \in Seq(Update)
                BY <1>5, CommitEffect, UpdatesOfChange DEF IsChain
            <4>3. QED
                BY <4>1, <4>2 DEF FeedInv
        <3>2. CASE phase # "streaming"
            BY <1>5, <3>2, CommitEffect DEF FeedInv
        <3>3. QED
            BY <3>1, <3>2
    <2>2. phase # "streaming" => feed' = <<>>
        BY <1>5, CommitEffect DEF FeedInv
    <2>3. QED
        BY <1>5, <2>1, <2>2, CommitEffect DEF FeedInv
<1>6. QED
    BY <1>1, <1>2, <1>3, <1>4, <1>5, StepKinds

\* An update is silent exactly when it tells a subscriber nothing new.
LEMMA SilentUpdates ==
    ASSUME AreEntries(view), NEW id, NEW entry \in Entry
    PROVE  EventOf(id, entry) = "none" <=>
               \/ id \notin DOMAIN view /\ entry.status # "Open"
               \/ id \in DOMAIN view /\ Told(entry) = Told(view[id])
<1>1. CASE id \notin DOMAIN view
    BY <1>1 DEF EventOf
<1>2. CASE id \in DOMAIN view
    <2> DEFINE old == view[id]
    <2>1. old \in Entry
        BY <1>2 DEF AreEntries
    <2> HIDE DEF old
    <2>2. Told(entry) = Told(old) <=> Status(entry) = Status(old) /\ entry.balance = old.balance
        BY DEF Told
    <2>3. StatusEvent[entry.status] # "none"
        BY DEF StatusEvent, Entry
    <2>4. EventOf(id, entry) =
            CASE Status(entry) = Status(old) /\ entry.balance = old.balance -> "none"
              [] Status(entry) # Status(old) -> StatusEvent[entry.status]
              [] Status(entry) = Status(old) /\ entry.balance > old.balance -> "BalanceIncreased"
              [] OTHER -> IF entry.index > old.index THEN "TicketRedeemed" ELSE "BalanceDecreased"
        BY <1>2 DEF EventOf, old
    <2>5. CASE Status(entry) = Status(old) /\ entry.balance = old.balance
        BY <2>5, <2>1, <2>2, <2>4, <1>2 DEF Entry, old
    <2>6. CASE Status(entry) # Status(old)
        BY <2>6, <2>2, <2>3, <2>4, <1>2 DEF old
    <2>7. CASE Status(entry) = Status(old) /\ entry.balance # old.balance
        <3>1. EventOf(id, entry) \in {"BalanceIncreased", "TicketRedeemed", "BalanceDecreased"}
            BY <2>7, <2>4
        <3>2. QED
            BY <3>1, <2>7, <2>2, <1>2 DEF old
    <2>8. QED
        BY <2>5, <2>6, <2>7
<1>3. QED
    BY <1>1, <1>2

\* Ingesting: the channel of the update, and the others, which are left alone.
LEMMA IngestTells ==
    ASSUME FeedInv, EventsInv, Ingest
    PROVE  EventsInv'
<1> DEFINE id == Head(feed).id
           entry == ConvertChannelModel(Head(feed).entry)
           kind == EventOf(id, entry)
<1>1. /\ feed # <<>> /\ phase' = phase /\ passed' = passed /\ active' = active
      /\ view' = Put(view, id, entry) /\ events' = events /\ missed' = missed
      /\ unsent = {}
      /\ unsent' = IF kind = "none" THEN {} ELSE {[id |-> id, told |-> Told(entry)]}
    BY DEF Ingest
<1>2. id \in ChannelIds /\ entry \in Entry /\ AreEntries(view)
    BY <1>1, FeedHead, ConvertedEntry DEF FeedInv
<1>3. kind = "none" <=>
          \/ id \notin DOMAIN view /\ entry.status # "Open"
          \/ id \in DOMAIN view /\ Told(entry) = Told(view[id])
    BY <1>2, SilentUpdates
<1> HIDE DEF kind, id, entry
<1>4. /\ DOMAIN view' = DOMAIN view \cup {id} /\ view'[id] = entry
      /\ \A x \in DOMAIN view : x # id => view'[x] = view[x]
    BY <1>1 DEF Put
<1>5. \A event \in unsent' : event.id = id /\ event.told = Told(entry)
    BY <1>1
<1>6. \/ kind = "none" /\ Announced(unsent') = {}
      \/ kind # "none" /\ Announced(unsent') = {id}
    <2>1. kind = "none" => unsent' = {}
        BY <1>1
    <2>2. kind # "none" => \E event \in unsent' : TRUE
        BY <1>1
    <2>3. QED
        BY <1>5, <2>1, <2>2 DEF Announced
<1>7. \A x \in DOMAIN view \ missed :
        /\ x \in DOMAIN events => events[x] = Told(view[x])
        /\ x \in passed /\ view[x].status = "Open" => x \in DOMAIN events
    BY <1>1 DEF EventsInv, Announced
<1>8. ASSUME NEW x \in DOMAIN view' \ (missed \cup Announced(unsent'))
      PROVE  /\ x \in DOMAIN events => events[x] = Told(view'[x])
             /\ x \in passed /\ view'[x].status = "Open" => x \in DOMAIN events
    <2>1. CASE x # id
        BY <2>1, <1>4, <1>7
    <2>2. CASE x = id /\ id \notin DOMAIN view
        <3>1. id \notin DOMAIN events /\ kind = "none"
            BY <2>2, <1>6, <1>8 DEF EventsInv
        <3>2. QED
            BY <2>2, <3>1, <1>3, <1>4
    <2>3. CASE x = id /\ id \in DOMAIN view
        <3>1. Told(entry) = Told(view[id]) /\ id \in DOMAIN view \ missed
            BY <2>3, <1>3, <1>6, <1>8
        <3>2. entry.status = view[id].status
            BY <3>1 DEF Told, Status
        <3>3. QED
            BY <2>3, <3>1, <3>2, <1>4, <1>7
    <2>4. QED
        BY <2>1, <2>2, <2>3
<1>9. phase \notin {"new", "accounts"}
    BY <1>1 DEF FeedInv
<1>10. DOMAIN events \subseteq DOMAIN view'
    BY <1>4 DEF EventsInv
<1>11. \A event \in unsent' : event.id \in DOMAIN view' /\ event.told = Told(view'[event.id])
    BY <1>4, <1>5
<1>12. QED
    BY <1>1, <1>8, <1>9, <1>10, <1>11 DEF EventsInv

\* A broadcast tells an active subscriber what the cache says; one that is not active yet
\* has missed it, unless its snapshot told the same or has still to pass the channel.
LEMMA BroadcastTells ==
    ASSUME EventsInv, Broadcast
    PROVE  EventsInv'
<1>1. PICK event \in unsent :
        /\ unsent' = unsent \ {event}
        /\ events' = IF active THEN Put(events, event.id, event.told) ELSE events
        /\ missed' = IF active THEN missed \ {event.id}
                     ELSE IF Heard(event) THEN missed ELSE missed \cup ({event.id} \cap passed)
        /\ UNCHANGED <<phase, view, passed, active>>
    BY DEF Broadcast, connectVars
<1> DEFINE id == event.id
<1>2. id \in DOMAIN view /\ event.told = Told(view[id])
    BY DEF EventsInv
<1>3. phase \notin {"new", "accounts"} /\ active \in BOOLEAN
    BY DEF EventsInv
<1> HIDE DEF id
<1>4. /\ active => DOMAIN events' = DOMAIN events \cup {id} /\ events'[id] = Told(view[id])
      /\ ~active => events' = events
      /\ \A x \in DOMAIN events : x # id => events'[x] = events[x]
      /\ \A x : x # id => (x \in DOMAIN events' <=> x \in DOMAIN events)
    BY <1>1, <1>2 DEF Put, id
<1>5. ASSUME NEW x \in DOMAIN view \ (missed' \cup Announced(unsent'))
      PROVE  /\ x \in DOMAIN events' => events'[x] = Told(view[x])
             /\ x \in passed /\ view[x].status = "Open" => x \in DOMAIN events'
    <2>1. CASE x # id
        <3>1. x \notin missed
            BY <1>1, <1>5, <2>1 DEF id
        <3>2. x \notin Announced(unsent)
            BY <1>1, <1>5, <2>1 DEF Announced, id
        <3>3. QED
            BY <1>4, <1>5, <2>1, <3>1, <3>2 DEF EventsInv
    <2>2. CASE x = id /\ active
        BY <1>4, <2>2
    <2>3. CASE x = id /\ ~active /\ Heard(event)
        BY <1>2, <1>4, <2>3 DEF Heard, id
    <2>4. CASE x = id /\ ~active /\ ~Heard(event)
        <3>1. id \notin passed
            BY <1>1, <1>5, <2>4 DEF id
        <3>2. id \notin DOMAIN events
            BY <2>4, <3>1 DEF EventsInv
        <3>3. QED
            BY <1>4, <2>4, <3>1, <3>2
    <2>5. QED
        BY <1>3, <2>1, <2>2, <2>3, <2>4
<1>6. DOMAIN events' \subseteq DOMAIN view /\ (~active => DOMAIN events' \subseteq passed)
    BY <1>2, <1>3, <1>4 DEF EventsInv
<1>7. \A e \in unsent' : e.id \in DOMAIN view /\ e.told = Told(view[e.id])
    BY <1>1 DEF EventsInv
<1>8. QED
    BY <1>1, <1>3, <1>5, <1>6, <1>7 DEF EventsInv

\* A snapshot tells of a channel that is not closed what the cache says of it now.
LEMMA SnapshotTells ==
    ASSUME FeedInv, EventsInv, NEW id \in ChannelIds, Snapshot(id)
    PROVE  EventsInv'
<1>1. /\ phase \in {"loaded", "streaming"} /\ id \notin passed /\ phase' = phase /\ view' = view
      /\ passed' = passed \cup {id} /\ active' = active /\ missed' = missed /\ unsent' = unsent
      /\ events' = IF id \in DOMAIN view /\ view[id].status # "Closed"
                   THEN Put(events, id, Told(view[id])) ELSE events
    BY DEF Snapshot, SnapshotEvents, connectVars
<1>2. ~active
    BY <1>1 DEF EventsInv
<1>3. CASE id \in DOMAIN view /\ view[id].status # "Closed"
    <2>1. /\ DOMAIN events' = DOMAIN events \cup {id} /\ events'[id] = Told(view[id])
          /\ \A x \in DOMAIN events : x # id => events'[x] = events[x]
        BY <1>1, <1>3 DEF Put
    <2>2. ASSUME NEW x \in DOMAIN view \ (missed \cup Announced(unsent))
          PROVE  /\ x \in DOMAIN events' => events'[x] = Told(view[x])
                 /\ x \in passed' /\ view[x].status = "Open" => x \in DOMAIN events'
        <3>1. CASE x = id
            BY <3>1, <2>1
        <3>2. CASE x # id
            BY <3>2, <2>1, <1>1 DEF EventsInv
        <3>3. QED
            BY <3>1, <3>2
    <2>3. QED
        BY <1>1, <1>2, <1>3, <2>1, <2>2 DEF EventsInv
<1>4. CASE ~(id \in DOMAIN view /\ view[id].status # "Closed")
    <2>1. events' = events
        BY <1>1, <1>4
    <2>2. ASSUME NEW x \in DOMAIN view \ (missed \cup Announced(unsent))
          PROVE  x \in passed' /\ view[x].status = "Open" => x \in DOMAIN events
        <3>1. CASE x = id
            BY <3>1, <1>4
        <3>2. CASE x # id
            BY <3>2, <1>1 DEF EventsInv
        <3>3. QED
            BY <3>1, <3>2
    <2>3. QED
        BY <1>1, <1>2, <2>1, <2>2 DEF EventsInv
<1>5. QED
    BY <1>3, <1>4

\* Every step keeps the subscriber current; only a broadcast and a snapshot tell it anything.
LEMMA EventsStep ==
    ASSUME FeedInv, EventsInv, CallsInv, [Next]_vars
    PROVE  EventsInv'
<1>1. CASE Quiet
    BY <1>1 DEF Quiet, EventsInv, connectVars, eventVars
<1>2. CASE Commits
    BY <1>2 DEF Commits, EventsInv, connectVars, eventVars
<1>3. CASE QueryAccounts
    BY <1>3 DEF QueryAccounts, EventsInv, eventVars
<1>4. CASE QueryChannels
    <2>1. /\ phase = "accounts" /\ phase' \in {"loaded", "failed"}
          /\ passed' = passed /\ active' = active /\ missed' = missed /\ events' = events
          /\ unsent' = unsent
        BY <1>4 DEF QueryChannels, eventVars
    <2>2. passed = {} /\ DOMAIN events = {} /\ unsent = {}
        BY <2>1 DEF EventsInv
    <2>3. QED
        BY <2>1, <2>2 DEF EventsInv
<1>5. CASE SubscribeGraph
    BY <1>5 DEF SubscribeGraph, EventsInv, eventVars
<1>6. CASE Activate
    BY <1>6 DEF Activate, EventsInv, connectVars
<1>7. QED
    BY <1>1, <1>2, <1>3, <1>4, <1>5, <1>6, IngestTells, BroadcastTells,
       SnapshotTells, StepKinds

\* At first the subscriber has heard nothing.
LEMMA EventsStart ==
    ASSUME ConnectorInit
    PROVE  EventsInv
<1>1. DOMAIN view = {} /\ DOMAIN events = {}
    <2>1. DOMAIN <<>> = {}
        OBVIOUS
    <2>2. QED
        BY <2>1 DEF ConnectorInit
<1>2. passed = {} /\ active = FALSE /\ unsent = {}
    BY DEF ConnectorInit
<1>3. QED
    BY <1>1, <1>2 DEF EventsInv

\* Whatever updates, snapshots and activations interleave, an active subscriber that
\* missed no event between the two knows what the connector's cache says.
THEOREM SubscribersStayCurrent == Spec => []LastEventIsCurrent
<1> DEFINE IInv == CallsInv /\ FeedInv /\ EventsInv
<1>1. ConnectorInit => IInv
    BY CallsStart, FeedStart, EventsStart
<1>2. IInv /\ [Next]_vars => IInv'
    BY CallsStep, FeedStep, EventsStep
<1>3. IInv => LastEventIsCurrent
    <2>1. SUFFICES ASSUME FeedInv, EventsInv,
                          NEW id \in (DOMAIN view \cup DOMAIN events) \ (missed \cup Announced(unsent))
                   PROVE  /\ id \in DOMAIN events => id \in DOMAIN view /\ events[id] = Told(view[id])
                          /\ active /\ view[id].status = "Open" => id \in DOMAIN events
        BY DEF LastEventIsCurrent, Announced
    <2>2. id \in DOMAIN view \ (missed \cup Announced(unsent)) /\ id \in ChannelIds
        BY <2>1 DEF EventsInv, FeedInv, AreEntries
    <2>3. QED
        BY <2>1, <2>2 DEF EventsInv
<1>4. QED
    BY <1>1, <1>2, <1>3, PTL DEF Spec

\* The cache mirrors the chain: the initial snapshot covers every channel.
LEMMA SubscribeMirrors ==
    ASSUME FeedInv, MirrorInv, SubscribeGraph
    PROVE  MirrorInv'
<1>1. /\ phase = "loaded" /\ phase' = "streaming" /\ chain' = chain /\ view' = view
      /\ feed' \in Updates(<<>>, chain.channels)
    BY DEF SubscribeGraph
<1>2. AreEntries(chain.channels) /\ DOMAIN <<>> = {}
    BY DEF FeedInv, IsChain
<1>3. /\ feed' \in Seq(Update)
      /\ \A i \in DOMAIN feed' : /\ feed'[i].id \in DOMAIN chain.channels
                                 /\ feed'[i].entry = chain.channels[feed'[i].id]
      /\ \A i, j \in DOMAIN feed' : i # j => feed'[i].id # feed'[j].id
      /\ \A id \in DOMAIN chain.channels : \E i \in DOMAIN feed' : feed'[i].id = id
    BY <1>1, <1>2, UpdatesOfChange
<1>4. ASSUME NEW id \in DOMAIN chain.channels
      PROVE  \E i \in DOMAIN feed' : /\ feed'[i].id = id
                                     /\ \A j \in DOMAIN feed' : j > i => feed'[j].id # id
                                     /\ feed'[i].entry = chain.channels[id]
    <2>1. PICK i \in DOMAIN feed' : feed'[i].id = id
        BY <1>3
    <2>2. \A j \in DOMAIN feed' : j > i => j # i
        BY <1>3
    <2>3. QED
        BY <2>1, <2>2, <1>3
<1>5. QED
    BY <1>1, <1>3, <1>4 DEF MirrorInv, IsLast

\* The update taken is the last of its channel, or another of it is still waiting.
LEMMA IngestMirrors ==
    ASSUME FeedInv, MirrorInv, Ingest
    PROVE  MirrorInv'
<1> DEFINE head == Head(feed).id
           entry == ConvertChannelModel(Head(feed).entry)
<1>1. /\ feed # <<>> /\ chain' = chain /\ phase' = phase
      /\ feed' = Tail(feed) /\ view' = Put(view, head, entry)
    BY DEF Ingest
<1>2. phase = "streaming"
    BY <1>1 DEF FeedInv
<1>3. /\ DOMAIN view' = DOMAIN view \cup {head} /\ view'[head] = entry
      /\ \A x \in DOMAIN view : x # head => view'[x] = view[x]
      /\ view' = [x \in DOMAIN view' |-> view'[x]]
    BY <1>1 DEF Put
<1>4. /\ DOMAIN feed = 1..Len(feed) /\ Len(feed) \in Nat \ {0}
      /\ DOMAIN feed' = 1..Len(feed) - 1
      /\ \A i \in 1..Len(feed) - 1 : feed'[i] = feed[i + 1]
      /\ Head(feed) = feed[1] /\ 1 \in DOMAIN feed
    <2>1. Tail(feed) \in Seq(Update) /\ Len(Tail(feed)) = Len(feed) - 1
        BY <1>1, FeedHead
    <2>2. DOMAIN Tail(feed) = 1..Len(Tail(feed))
        BY <2>1
    <2>3. QED
        BY <1>1, <2>1, <2>2, FeedHead
<1>5. \A i \in DOMAIN feed' : i + 1 \in DOMAIN feed /\ feed'[i] = feed[i + 1]
    BY <1>4
<1>6. head \in DOMAIN chain.channels
    BY <1>2, <1>4 DEF MirrorInv
<1> HIDE DEF head, entry
<1>7. ASSUME NEW id \in DOMAIN chain.channels
      PROVE  \/ \E i \in DOMAIN feed' : /\ feed'[i].id = id
                                        /\ \A j \in DOMAIN feed' : j > i => feed'[j].id # id
                                        /\ feed'[i].entry = chain.channels[id]
             \/ /\ \A i \in DOMAIN feed' : feed'[i].id # id
                /\ id \in DOMAIN view'
                /\ view'[id] = ConvertChannelModel(chain.channels[id])
    <2>1. CASE \E i \in DOMAIN feed : IsLast(i, id) /\ feed[i].entry = chain.channels[id]
        <3>1. PICK i \in DOMAIN feed : IsLast(i, id) /\ feed[i].entry = chain.channels[id]
            BY <2>1
        <3>2. CASE i = 1
            <4>1. head = id /\ entry = ConvertChannelModel(chain.channels[id])
                BY <3>1, <3>2, <1>4 DEF IsLast, head, entry
            <4>2. \A j \in DOMAIN feed' : feed'[j].id # id
                <5>1. \A j \in DOMAIN feed' : j + 1 > 1
                    BY <1>4
                <5>2. QED
                    BY <5>1, <3>1, <3>2, <1>5 DEF IsLast
            <4>3. QED
                BY <4>1, <4>2, <1>3
        <3>3. CASE i # 1
            <4>1. i - 1 \in DOMAIN feed' /\ feed'[i - 1] = feed[i]
                <5>1. i \in 1..Len(feed) /\ i - 1 \in 1..Len(feed) - 1 /\ (i - 1) + 1 = i
                    BY <3>3, <1>4
                <5>2. QED
                    BY <5>1, <1>4
            <4>2. \A j \in DOMAIN feed' : j > i - 1 => feed'[j].id # id
                <5>1. SUFFICES ASSUME NEW j \in DOMAIN feed', j > i - 1
                               PROVE  feed'[j].id # id
                    OBVIOUS
                <5>2. j + 1 \in DOMAIN feed /\ j + 1 > i /\ feed'[j] = feed[j + 1]
                    <6>1. j \in 1..Len(feed) - 1 /\ i \in 1..Len(feed)
                        BY <5>1, <1>4
                    <6>2. j + 1 > i
                        BY <5>1, <6>1
                    <6>3. QED
                        BY <5>1, <6>2, <1>5
                <5>3. QED
                    BY <5>2, <3>1 DEF IsLast
            <4>3. QED
                BY <4>1, <4>2, <3>1 DEF IsLast
        <3>4. QED
            BY <3>2, <3>3
    <2>2. CASE /\ \A i \in DOMAIN feed : feed[i].id # id
               /\ id \in DOMAIN view
               /\ view[id] = ConvertChannelModel(chain.channels[id])
        <3>1. id # head
            BY <2>2, <1>4 DEF head
        <3>2. QED
            BY <2>2, <3>1, <1>3, <1>5
    <2>3. QED
        BY <1>2, <2>1, <2>2 DEF MirrorInv
<1>8. \A i \in DOMAIN feed' : feed'[i].id \in DOMAIN chain.channels
    BY <1>2, <1>5 DEF MirrorInv
<1>9. DOMAIN view' \subseteq DOMAIN chain.channels
    BY <1>2, <1>3, <1>6 DEF MirrorInv
<1>10. QED
    BY <1>1, <1>3, <1>7, <1>8, <1>9 DEF MirrorInv, IsLast

\* A transaction: a channel it changed has its last update at the end of the feed.
LEMMA CommitMirrors ==
    ASSUME FeedInv, MirrorInv, Commits
    PROVE  MirrorInv'
<1>1. /\ IsChain(chain') /\ DOMAIN chain.channels \subseteq DOMAIN chain'.channels
      /\ phase' = phase /\ view' = view
    BY CommitEffect DEF EpochOrder
<1>2. CASE phase # "streaming"
    BY <1>1, <1>2 DEF MirrorInv
<1>3. CASE phase = "streaming"
    <2>1. PICK u \in Updates(chain.channels, chain'.channels) : feed' = feed \o u
        BY <1>3, CommitEffect
    <2>2. AreEntries(chain'.channels) /\ feed \in Seq(Update)
        BY <1>1 DEF IsChain, FeedInv
    <2>3. /\ u \in Seq(Update)
          /\ \A i \in DOMAIN u :
               /\ u[i].id \in DOMAIN chain'.channels
               /\ u[i].entry = chain'.channels[u[i].id]
               /\ \/ u[i].id \notin DOMAIN chain.channels
                  \/ chain'.channels[u[i].id] # chain.channels[u[i].id]
          /\ \A i, j \in DOMAIN u : i # j => u[i].id # u[j].id
          /\ \A id \in DOMAIN chain'.channels :
               id \notin DOMAIN chain.channels \/ chain'.channels[id] # chain.channels[id]
                   => \E i \in DOMAIN u : u[i].id = id
        BY <2>2, UpdatesOfChange
    <2> DEFINE n == Len(feed)
               m == Len(u)
    <2>4. /\ n \in Nat /\ m \in Nat /\ DOMAIN feed = 1..n /\ DOMAIN u = 1..m
          /\ DOMAIN feed' = 1..n + m
          /\ \A i \in 1..n : feed'[i] = feed[i]
          /\ \A i \in 1..m : feed'[n + i] = u[i]
        BY <2>1, <2>2, <2>3
    <2> HIDE DEF n, m
    <2>5. \A i \in DOMAIN feed' : \/ i \in DOMAIN feed /\ feed'[i] = feed[i]
                                  \/ \E j \in DOMAIN u : i = n + j /\ feed'[i] = u[j]
        <3>1. SUFFICES ASSUME NEW i \in 1..n + m, i \notin 1..n
                       PROVE  \E j \in 1..m : i = n + j /\ feed'[i] = u[j]
            BY <2>4
        <3>2. i - n \in 1..m /\ i = n + (i - n)
            BY <3>1, <2>4
        <3>3. QED
            BY <3>2, <2>4
    <2>6. \A i \in DOMAIN feed' : feed'[i].id \in DOMAIN chain'.channels
        BY <1>1, <1>3, <2>3, <2>5 DEF MirrorInv
    <2>7. ASSUME NEW id \in DOMAIN chain'.channels
          PROVE  \/ \E i \in DOMAIN feed' : /\ feed'[i].id = id
                                            /\ \A j \in DOMAIN feed' : j > i => feed'[j].id # id
                                            /\ feed'[i].entry = chain'.channels[id]
                 \/ /\ \A i \in DOMAIN feed' : feed'[i].id # id
                    /\ id \in DOMAIN view'
                    /\ view'[id] = ConvertChannelModel(chain'.channels[id])
        <3>1. CASE id \notin DOMAIN chain.channels \/ chain'.channels[id] # chain.channels[id]
            <4>1. PICK i \in DOMAIN u : u[i].id = id
                BY <3>1, <2>3
            <4>2. n + i \in DOMAIN feed' /\ feed'[n + i] = u[i] /\ i \in 1..m
                BY <2>4
            <4>3. \A j \in DOMAIN feed' : j > n + i => feed'[j].id # id
                <5>1. SUFFICES ASSUME NEW j \in DOMAIN feed', j > n + i
                               PROVE  feed'[j].id # id
                    OBVIOUS
                <5>2. j \notin DOMAIN feed
                    BY <5>1, <4>2, <2>4
                <5>3. PICK l \in DOMAIN u : j = n + l /\ feed'[j] = u[l]
                    BY <5>2, <2>5
                <5>4. l # i
                    BY <5>1, <5>3, <4>2, <2>4
                <5>5. QED
                    BY <5>3, <5>4, <4>1, <2>3
            <4>4. QED
                BY <4>1, <4>2, <4>3, <2>3
        <3>2. CASE id \in DOMAIN chain.channels /\ chain'.channels[id] = chain.channels[id]
            <4>1. \A j \in DOMAIN u : u[j].id # id
                BY <3>2, <2>3
            <4>2. \A j \in DOMAIN feed' : feed'[j].id = id => j \in DOMAIN feed /\ feed'[j] = feed[j]
                BY <4>1, <2>5
            <4>3. CASE \E i \in DOMAIN feed : IsLast(i, id) /\ feed[i].entry = chain.channels[id]
                <5>1. PICK i \in DOMAIN feed : IsLast(i, id) /\ feed[i].entry = chain.channels[id]
                    BY <4>3
                <5>2. i \in DOMAIN feed' /\ feed'[i] = feed[i]
                    BY <2>4
                <5>3. QED
                    BY <5>1, <5>2, <4>2, <3>2 DEF IsLast
            <4>4. CASE /\ \A i \in DOMAIN feed : feed[i].id # id
                       /\ id \in DOMAIN view
                       /\ view[id] = ConvertChannelModel(chain.channels[id])
                BY <4>2, <4>4, <3>2, <1>1
            <4>5. QED
                BY <1>3, <3>2, <4>3, <4>4 DEF MirrorInv
        <3>3. QED
            BY <3>1, <3>2
    <2>8. QED
        BY <1>1, <1>3, <2>6, <2>7 DEF MirrorInv, IsLast
<1>4. QED
    BY <1>2, <1>3

\* Every step keeps the feed leading to what the chain says.
LEMMA MirrorStep ==
    ASSUME FeedInv, MirrorInv, CallsInv, [Next]_vars
    PROVE  MirrorInv'
<1>1. CASE Quiet \/ Broadcast \/ Activate \/ \E id \in ChannelIds : Snapshot(id)
    <2>1. phase' = phase /\ chain' = chain /\ feed' = feed /\ view' = view
        BY <1>1 DEF Quiet, Broadcast, Activate, Snapshot, connectVars
    <2>2. QED
        BY <2>1 DEF MirrorInv, IsLast
<1>2. CASE QueryAccounts
    BY <1>2 DEF QueryAccounts, MirrorInv
<1>3. CASE QueryChannels
    <2>1. CASE phase' = "failed" /\ view' = view
        BY <2>1 DEF MirrorInv
    <2>2. CASE /\ phase' = "loaded" /\ chain' = chain
               /\ view' = [id \in DOMAIN chain.channels |-> ConvertChannelModel(chain.channels[id])]
        <3>1. DOMAIN view' = DOMAIN chain.channels /\ view' = [id \in DOMAIN view' |-> view'[id]]
            BY <2>2
        <3>2. QED
            BY <2>2, <3>1 DEF MirrorInv
    <2>3. QED
        BY <1>3, <2>1, <2>2 DEF QueryChannels
<1>4. QED
    BY <1>1, <1>2, <1>3, SubscribeMirrors, IngestMirrors, CommitMirrors, StepKinds

\* Before the connection is up nothing is claimed of the cache.
LEMMA MirrorStart ==
    ASSUME ConnectorInit
    PROVE  MirrorInv
<1>1. <<>> = [id \in DOMAIN <<>> |-> <<>>[id]]
    OBVIOUS
<1>2. phase = "new" /\ view = <<>>
    BY DEF ConnectorInit
<1>3. QED
    BY <1>1, <1>2 DEF MirrorInv

\* No call waits for no update.
LEMMA NoCallWaits == NoCall.behind = 0
BY DEF NoCall

\* A step that ingests nothing leaves a call's distance to its update, clears it, or
\* sets it to the length of the feed.
LEMMA CallsBehind ==
    ASSUME CallsInv, [Next]_vars, ~Ingest, NEW j \in Calls
    PROVE  call'[j].behind \in {0, call[j].behind, Len(feed')}
<1> USE DEF CallsInv
<1>1. CASE call' = call
    BY <1>1
<1>2. ASSUME NEW k \in Calls, OpenChannel(k) \/ FundKnownChannel(k) \/ CloseChannel(k)
      PROVE  call'[j].behind \in {0, call[j].behind}
    <2>1. ASSUME NEW op, NEW fault, NEW next, NEW record, Gate(k, op, fault, next, record),
                 record.behind = 0
          PROVE  call'[j].behind \in {0, call[j].behind}
        <3>1. call' = [call EXCEPT ![k] = IF fault = "None" /\ next = "sending" THEN record ELSE NoCall]
            BY <2>1 DEF Gate
        <3>2. call'[j] \in {call[j], record, NoCall}
            BY <3>1
        <3>3. QED
            BY <3>2, <2>1, NoCallWaits
    <2>2. ASSUME OpenChannel(k)
          PROVE  call'[j].behind \in {0, call[j].behind}
        <3>1. PICK dst, amount, fault :
                Gate(k, "OpenChannel", fault, "sending",
                     [NoCall EXCEPT !.op = "OpenChannel", !.id = <<Me, dst>>, !.tx = FundTx(dst, amount)])
            BY <2>2 DEF OpenChannel
        <3>2. [NoCall EXCEPT !.op = "OpenChannel", !.id = <<Me, dst>>,
                             !.tx = FundTx(dst, amount)].behind = 0
            BY DEF NoCall
        <3>3. QED
            BY <3>1, <3>2, <2>1
    <2>3. ASSUME FundKnownChannel(k)
          PROVE  call'[j].behind \in {0, call[j].behind}
        <3>1. PICK id, amount, fault :
                Gate(k, "FundChannel", fault, IF id \in DOMAIN view THEN "sending" ELSE "idle",
                     [NoCall EXCEPT !.op = "FundChannel", !.id = id, !.tx = FundTx(id[2], amount),
                                    !.goal = FundedTo(id, amount)])
            BY <2>3 DEF FundKnownChannel
        <3>2. [NoCall EXCEPT !.op = "FundChannel", !.id = id, !.tx = FundTx(id[2], amount),
                             !.goal = FundedTo(id, amount)].behind = 0
            BY DEF NoCall
        <3>3. QED
            BY <3>1, <3>2, <2>1
    <2>4. ASSUME CloseChannel(k)
          PROVE  call'[j].behind \in {0, call[j].behind}
        <3>1. PICK id, closure, fault :
                Gate(k, "CloseChannel", fault, IF Closable(id) THEN "sending" ELSE "idle",
                     [NoCall EXCEPT !.op = "CloseChannel", !.id = id, !.tx = CloseTx(id, closure),
                                    !.goal = Status(view[id])])
            BY <2>4 DEF CloseChannel
        <3>2. [NoCall EXCEPT !.op = "CloseChannel", !.id = id, !.tx = CloseTx(id, closure),
                             !.goal = Status(view[id])].behind = 0
            BY DEF NoCall
        <3>3. QED
            BY <3>1, <3>2, <2>1
    <2>5. QED
        BY <1>2, <2>2, <2>3, <2>4
<1>3. ASSUME NEW k \in Calls, SendTx(k)
      PROVE  call'[j].behind \in {0, call[j].behind, Len(feed')}
    <2> DEFINE record == [call[k] EXCEPT !.behind = Len(feed'), !.tx = <<>>]
    <2>1. record.behind = Len(feed')
        BY DEF CallFields
    <2>2. call'[j] \in {call[j], record, NoCall}
        BY <1>3 DEF SendTx
    <2>3. QED
        BY <2>1, <2>2, NoCallWaits
<1>4. ASSUME NEW k \in Calls, NEW late, AwaitOwnView(k, late)
      PROVE  call'[j].behind = call[j].behind
    <2>1. call' = [call EXCEPT ![k] = [call[k] EXCEPT !.late = late]]
        BY <1>4 DEF AwaitOwnView
    <2>2. [call[k] EXCEPT !.late = late].behind = call[k].behind
        BY DEF CallFields
    <2>3. QED
        BY <2>1, <2>2
<1>5. ASSUME NEW k \in Calls, Confirm(k) \/ DropFuture(k)
      PROVE  call'[j].behind \in {0, call[j].behind}
    <2>1. call' = [call EXCEPT ![k] = NoCall]
        BY <1>5 DEF Confirm, DropFuture
    <2>2. QED
        BY <2>1, NoCallWaits
<1>6. ASSUME NEW k \in Calls, Submit(k)
      PROVE  call'[j].behind = call[j].behind
    <2>1. PICK tx : call' = [call EXCEPT ![k] = [call[k] EXCEPT !.tx = tx]]
        BY <1>6 DEF Submit
    <2>2. [call[k] EXCEPT !.tx = tx].behind = call[k].behind
        BY DEF CallFields
    <2>3. QED
        BY <2>1, <2>2
<1>7. ASSUME NEW k \in Calls, EnterInFlight(k) \/ DropGuard(k)
      PROVE  call' = call
    BY <1>7 DEF EnterInFlight, DropGuard
<1>8. ASSUME \/ Connect \/ Broadcast \/ Activate \/ PeerTx \/ \E id \in ChannelIds : Snapshot(id)
             \/ UNCHANGED vars
      PROVE  call' = call
    BY <1>8 DEF Connect, QueryAccounts, QueryChannels, SubscribeGraph, Broadcast, Activate, PeerTx, Snapshot,
                callVars, vars
<1>9. QED
    BY <1>1, <1>2, <1>3, <1>4, <1>5, <1>6, <1>7, <1>8 DEF Next, CallStep

\* The number of transactions sent only grows, from 0.
LEMMA NonceStep ==
    ASSUME nonce \in Nat, [Next]_vars
    PROVE  nonce' \in Nat
<1>1. ASSUME NEW k \in Calls,
             \/ OpenChannel(k) \/ FundKnownChannel(k) \/ CloseChannel(k)
      PROVE  nonce' = nonce
    BY <1>1 DEF OpenChannel, FundKnownChannel, CloseChannel, Gate
<1>2. ASSUME NEW k \in Calls,
             \/ Submit(k) \/ EnterInFlight(k) \/ AwaitOwnView(k, FALSE) \/ AwaitOwnView(k, TRUE)
             \/ Confirm(k) \/ DropGuard(k) \/ DropFuture(k)
      PROVE  nonce' = nonce
    BY <1>2 DEF Submit, EnterInFlight, AwaitOwnView, Confirm, DropGuard, DropFuture
<1>3. ASSUME NEW k \in Calls, SendTx(k)
      PROVE  nonce' = nonce + 1
    BY <1>3 DEF SendTx
<1>4. ASSUME \/ Connect \/ Ingest \/ Broadcast \/ Activate \/ PeerTx \/ \E id \in ChannelIds : Snapshot(id)
             \/ UNCHANGED vars
      PROVE  nonce' = nonce
    BY <1>4 DEF Connect, QueryAccounts, QueryChannels, SubscribeGraph, Ingest, Broadcast, Activate, PeerTx,
                Snapshot, callVars, vars
<1>5. nonce' = nonce \/ nonce' = nonce + 1
    BY <1>1, <1>2, <1>3, <1>4 DEF Next, CallStep
<1>6. QED
    BY <1>5

\* Every step keeps the ends of cached channels cached, and the calls within the feed.
LEMMA CacheStep ==
    ASSUME FeedInv, CallsInv, CacheInv, [Next]_vars
    PROVE  CacheInv'
<1>1. /\ phase' \in {"new", "accounts", "failed"} => DOMAIN view' = {}
      /\ \A id \in DOMAIN view' : {id[1], id[2]} \subseteq known'
    <2>1. CASE \/ Quiet \/ Commits \/ Broadcast \/ Activate \/ SubscribeGraph
               \/ \E id \in ChannelIds : Snapshot(id)
        <3>1. view' = view /\ known' = known /\ (phase' = phase \/ phase' = "streaming")
            BY <2>1 DEF Quiet, Commits, Broadcast, Activate, SubscribeGraph, Snapshot, connectVars
        <3>2. QED
            BY <3>1 DEF CacheInv
    <2>2. CASE QueryAccounts
        BY <2>2 DEF QueryAccounts, CacheInv
    <2>3. CASE QueryChannels
        <3>1. phase = "accounts" /\ known' = known
            BY <2>3 DEF QueryChannels
        <3>2. CASE /\ \A id \in DOMAIN chain.channels : {id[1], id[2]} \subseteq known
                   /\ phase' = "loaded" /\ DOMAIN view' = DOMAIN chain.channels
            BY <3>1, <3>2
        <3>3. CASE phase' = "failed" /\ view' = view
            BY <3>1, <3>3 DEF CacheInv
        <3>4. QED
            BY <2>3, <3>2, <3>3 DEF QueryChannels
    <2>4. CASE Ingest
        <3>1. /\ feed # <<>> /\ phase' = phase
              /\ known' = known \cup {Head(feed).id[1], Head(feed).id[2]}
              /\ DOMAIN view' = DOMAIN view \cup {Head(feed).id}
            BY <2>4 DEF Ingest, Put
        <3>2. phase = "streaming"
            BY <3>1 DEF FeedInv
        <3>3. QED
            BY <3>1, <3>2 DEF CacheInv
    <2>5. QED
        BY <2>1, <2>2, <2>3, <2>4, StepKinds
<1>2. nonce' \in Nat
    BY NonceStep DEF CacheInv
<1>3. ASSUME NEW j \in Calls
      PROVE  call'[j].behind \in Nat /\ call'[j].behind <= Len(feed')
    <2> DEFINE b == call[j].behind
    <2>1. b \in Nat /\ b <= Len(feed) /\ Len(feed) \in Nat
        BY DEF CacheInv, FeedInv
    <2>2. CASE Ingest
        <3>1. call'[j].behind = IF b = 0 THEN 0 ELSE b - 1
            BY <2>2 DEF Ingest, CatchUp, CallsInv, CallFields
        <3>2. Len(feed') = Len(feed) - 1 /\ Len(feed) \in Nat \ {0}
            BY <2>2, FeedHead DEF Ingest
        <3> HIDE DEF b
        <3>3. QED
            BY <2>1, <3>1, <3>2
    <2>3. CASE ~Ingest
        <3>1. Len(feed') \in Nat /\ Len(feed) <= Len(feed')
            <4>1. CASE \/ Quiet \/ Broadcast \/ Activate \/ QueryAccounts \/ QueryChannels
                       \/ \E id \in ChannelIds : Snapshot(id)
                <5>1. feed' = feed
                    BY <4>1 DEF Quiet, Broadcast, Activate, QueryAccounts, QueryChannels, Snapshot
                <5>2. QED
                    BY <5>1, <2>1
            <4>2. CASE SubscribeGraph
                <5>1. feed = <<>> /\ feed' \in Seq(Update)
                    BY <4>2, FeedStep DEF SubscribeGraph, FeedInv
                <5>2. QED
                    BY <5>1
            <4>3. CASE Commits
                <5>1. CASE feed' = feed
                    BY <5>1, <2>1
                <5>2. ASSUME NEW u \in Updates(chain.channels, chain'.channels), feed' = feed \o u
                      PROVE  Len(feed') \in Nat /\ Len(feed) <= Len(feed')
                    <6>1. u \in Seq(Update)
                        BY <4>3, CommitEffect, UpdatesOfChange DEF IsChain
                    <6>2. Len(feed') = Len(feed) + Len(u) /\ Len(u) \in Nat
                        BY <5>2, <6>1 DEF FeedInv
                    <6>3. QED
                        BY <6>2, <2>1
                <5>3. QED
                    BY <4>3, <5>1, <5>2, CommitEffect
            <4>4. QED
                BY <2>3, <4>1, <4>2, <4>3, StepKinds
        <3>2. call'[j].behind \in {0, b, Len(feed')}
            BY <2>3, CallsBehind
        <3> HIDE DEF b
        <3>3. QED
            BY <2>1, <3>1, <3>2
    <2>4. QED
        BY <2>2, <2>3
<1>4. QED
    BY <1>1, <1>2, <1>3 DEF CacheInv

\* At first both are empty.
LEMMA CacheStart ==
    ASSUME ConnectorInit
    PROVE  CacheInv
<1>1. view = <<>> /\ feed = <<>> /\ nonce = 0 /\ \A k \in Calls : call[k] = NoCall
    BY DEF ConnectorInit
<1>2. QED
    BY <1>1, NoCallWaits DEF CacheInv

\* Whatever transactions run while the connector connects, subscribes and ingests, the
\* cache is the chain whenever the feed is drained; chain, caches and calls keep their
\* types.
THEOREM CacheMirrorsChain == Spec => []DrainedFeedMirrorsChain
<1> DEFINE IInv == CallsInv /\ InFlightInv /\ FeedInv /\ MirrorInv /\ CacheInv
<1>1. ConnectorInit => IInv
    BY CallsStart, InFlightStarts, FeedStart, MirrorStart, CacheStart DEF ConnectorInit
<1>2. IInv /\ [Next]_vars => IInv'
    BY CallsStep, InFlightStep, FeedStep, MirrorStep, CacheStep
<1>3. IInv => DrainedFeedMirrorsChain
    <2>1. SUFFICES ASSUME IInv
                   PROVE  DrainedFeedMirrorsChain
        OBVIOUS
    <2>2. ConnectorTypeOK
        BY <2>1 DEF ConnectorTypeOK, CallsInv, InFlightInv, FeedInv, CacheInv
    <2>3. ASSUME phase = "streaming", feed = <<>>
          PROVE  view = Mirror
        <3>1. DOMAIN feed = {}
            BY <2>3
        <3>2. \A id \in DOMAIN chain.channels :
                id \in DOMAIN view /\ view[id] = ConvertChannelModel(chain.channels[id])
            BY <2>1, <2>3, <3>1 DEF MirrorInv
        <3>3. /\ DOMAIN view = DOMAIN chain.channels
              /\ view = [id \in DOMAIN view |-> view[id]]
            BY <2>1, <2>3, <3>2 DEF MirrorInv
        <3>4. QED
            BY <3>2, <3>3 DEF Mirror
    <2>4. QED
        BY <2>2, <2>3 DEF DrainedFeedMirrorsChain
<1>4. QED
    BY <1>1, <1>2, <1>3, PTL DEF Spec

------------------------------------------------------------------------------
(* The token supply. *)

\* What Total counts: the units under the keys of D.
Units(p, D) == UNION {{a} \X (1 .. p[a]) : a \in D}

\* A map from finitely many keys to numbers.
IsSummable(p) == IsFiniteSet(DOMAIN p) /\ \A a \in DOMAIN p : p[a] \in Nat

\* The units under one key.
LEMMA UnitsOfOne ==
    ASSUME NEW a, NEW n \in Nat
    PROVE  IsFiniteSet({a} \X (1..n)) /\ Cardinality({a} \X (1..n)) = n
<1>1. IsFiniteSet({a}) /\ Cardinality({a}) = 1
    BY FS_Singleton
<1>2. IsFiniteSet(1..n) /\ Cardinality(1..n) = n
    <2>1. 1 \in Int /\ n \in Int
        OBVIOUS
    <2>2. IsFiniteSet(1..n) /\ Cardinality(1..n) = IF 1 > n THEN 0 ELSE n - 1 + 1
        BY <2>1, FS_Interval
    <2>3. QED
        BY <2>2
<1> DEFINE S == {a}
           T == 1..n
<1> HIDE DEF S, T
<1>3. IsFiniteSet(S \X T) /\ Cardinality(S \X T) = Cardinality(S) * Cardinality(T)
    BY <1>1, <1>2, FS_Product DEF S, T
<1>4. Cardinality(S) = 1 /\ Cardinality(T) = n
    BY <1>1, <1>2 DEF S, T
<1>5. Cardinality(S \X T) = n
    BY <1>3, <1>4
<1>6. QED
    BY <1>3, <1>5 DEF S, T

\* There are finitely many units under finitely many keys.
LEMMA UnitsFinite ==
    ASSUME NEW p, IsSummable(p), NEW D \in SUBSET DOMAIN p
    PROVE  IsFiniteSet(Units(p, D)) /\ Cardinality(Units(p, D)) \in Nat
<1> DEFINE F == [a \in D |-> {a} \X (1 .. p[a])]
           R == {{a} \X (1 .. p[a]) : a \in D}
<1>1. IsFiniteSet(D)
    BY FS_Subset DEF IsSummable
<1>2. F \in Surjection(D, R)
    BY DEF Surjection
<1>3. ASSUME NEW T \in R
      PROVE  IsFiniteSet(T)
    <2>1. PICK a \in D : T = {a} \X (1 .. p[a])
        OBVIOUS
    <2>2. p[a] \in Nat
        BY DEF IsSummable
    <2>3. QED
        BY <2>1, <2>2, UnitsOfOne, Zenon
<1> HIDE DEF F, R
<1>4. IsFiniteSet(R)
    BY <1>1, <1>2, FS_Surjection
<1>5. IsFiniteSet(UNION R)
    BY <1>3, <1>4, FS_UNION
<1>6. QED
    BY <1>5, FS_CardinalityType DEF Units, R

\* The units under one key and those under the others.
LEMMA TotalSplits ==
    ASSUME NEW p, IsSummable(p), NEW a \in DOMAIN p
    PROVE  Total(p) = p[a] + Cardinality(Units(p, DOMAIN p \ {a}))
<1> DEFINE S == {a} \X (1 .. p[a])
           T == Units(p, DOMAIN p \ {a})
<1>1. IsFiniteSet(S) /\ Cardinality(S) = p[a] /\ p[a] \in Nat
    BY UnitsOfOne DEF IsSummable
<1>2. IsFiniteSet(T) /\ Cardinality(T) \in Nat
    BY UnitsFinite
<1>3. S \cap T = {}
    BY DEF Units
<1>4. S \cup T = UNION {{b} \X (1 .. p[b]) : b \in DOMAIN p}
    BY DEF Units
<1> HIDE DEF S, T
<1>5. Cardinality(S \cup T) = Cardinality(S) + Cardinality(T) - Cardinality(S \cap T)
    BY <1>1, <1>2, FS_Union
<1>6. Cardinality(S \cap T) = 0
    BY <1>3, FS_EmptySet
<1>7. Cardinality(S \cup T) = p[a] + Cardinality(T)
    BY <1>1, <1>2, <1>5, <1>6
<1>8. Total(p) = Cardinality(S \cup T)
    BY <1>4 DEF Total
<1>9. QED
    BY <1>7, <1>8 DEF T

\* The map q is p with another number under the key a, which may be new.
IsChanged(p, q, a) ==
    /\ DOMAIN q = DOMAIN p \cup {a}
    /\ \A b \in DOMAIN p \ {a} : q[b] = p[b]
At(p, a) == IF a \in DOMAIN p THEN p[a] ELSE 0

\* The total then changes by as much as the number.
LEMMA TotalChanges ==
    ASSUME NEW p, NEW q, NEW a, IsSummable(p), IsSummable(q), IsChanged(p, q, a)
    PROVE  /\ Total(p) \in Nat /\ Total(q) \in Nat
           /\ At(p, a) \in Nat /\ q[a] \in Nat
           /\ Total(q) + At(p, a) = Total(p) + q[a]
<1> DEFINE D == DOMAIN p \ {a}
           n == Cardinality(Units(p, D))
<1>1. DOMAIN q \ {a} = D /\ a \in DOMAIN q
    BY DEF IsChanged
<1>2. Units(q, D) = Units(p, D)
    <2>1. \A b \in D : q[b] = p[b]
        BY DEF IsChanged
    <2> HIDE DEF D
    <2>2. QED
        BY <2>1 DEF Units
<1>3. n \in Nat
    BY UnitsFinite
<1>4. Total(q) = q[a] + n /\ q[a] \in Nat
    BY <1>1, <1>2, TotalSplits DEF IsSummable
<1>5. Total(p) = At(p, a) + n /\ At(p, a) \in Nat
    <2>1. CASE a \in DOMAIN p
        BY <2>1, TotalSplits DEF At, IsSummable
    <2>2. CASE a \notin DOMAIN p
        <3>1. D = DOMAIN p
            BY <2>2
        <3>2. Total(p) = n
            BY <3>1 DEF Total, Units
        <3> HIDE DEF n
        <3>3. QED
            BY <1>3, <2>2, <3>2 DEF At
    <2>3. QED
        BY <2>1, <2>2
<1> HIDE DEF n
<1>6. QED
    BY <1>3, <1>4, <1>5

\* A chain has finitely many purses and channels,
LEMMA FiniteKeys == IsFiniteSet(Nodes \cup Safes) /\ IsFiniteSet(ChannelIds)
<1> DEFINE R == {Owned[n] : n \in Nodes}
           F == [n \in Nodes |-> Owned[n]]
<1>1. IsFiniteSet(Nodes)
    BY EmulatorAssumption
<1>2. F \in Surjection(Nodes, R)
    BY DEF Surjection
<1> HIDE DEF F
<1>3. IsFiniteSet(R)
    <2> HIDE DEF R
    <2>1. QED
        BY <1>1, <1>2, FS_Surjection
<1>4. Safes \in SUBSET R
    BY DEF Safes
<1> HIDE DEF R
<1>5. IsFiniteSet(Safes)
    BY <1>3, <1>4, FS_Subset
<1>6. IsFiniteSet(Nodes \cup Safes)
    BY <1>1, <1>5, FS_Union
<1>7. IsFiniteSet(Nodes \X Nodes)
    BY <1>1, FS_Product
<1>8. ChannelIds \in SUBSET (Nodes \X Nodes)
    BY DEF ChannelIds
<1>9. IsFiniteSet(ChannelIds)
    BY <1>7, <1>8, FS_Subset
<1>10. QED
    BY <1>6, <1>9

\* so its purses and the balances of its channels add up.
LEMMA ChainSummable ==
    ASSUME NEW f, IsPurse(f, Nodes \cup Safes)
    PROVE  IsSummable(f)
BY FiniteKeys, FS_Subset DEF IsPurse, IsSummable

\* The same for the channels.
LEMMA BalancesSummable ==
    ASSUME NEW c, AreEntries(c.channels)
    PROVE  IsSummable(Balances(c))
<1>1. DOMAIN Balances(c) = DOMAIN c.channels /\ \A id \in DOMAIN c.channels : Balances(c)[id] \in Nat
    BY DEF Balances, AreEntries, Entry
<1>2. IsFiniteSet(DOMAIN c.channels)
    BY FiniteKeys, FS_Subset DEF AreEntries
<1>3. QED
    BY <1>1, <1>2 DEF IsSummable

\* A debit takes from the total what it takes from the purse,
LEMMA DebitTotal ==
    ASSUME NEW f, IsPurse(f, Nodes \cup Safes), NEW a, NEW n \in Nat, Holds(f, a, n)
    PROVE  /\ Total(f) \in Nat /\ Total(Debit(f, a, n)) \in Nat
           /\ Total(Debit(f, a, n)) + n = Total(f)
<1> DEFINE g == Debit(f, a, n)
<1>1. IsSummable(f)
    BY ChainSummable
<1>2. IsSummable(g)
    <2>1. IsPurse(g, Nodes \cup Safes)
        BY DebitedPurse
    <2>2. QED
        BY <2>1, ChainSummable
<1>3. IsChanged(f, g, a) /\ g[a] = f[a] - n /\ At(f, a) = f[a] /\ f[a] \in Nat
    BY DEF IsChanged, Debit, Holds, At, IsPurse
<1> HIDE DEF g
<1>4. /\ Total(f) \in Nat /\ Total(g) \in Nat
      /\ Total(g) + At(f, a) = Total(f) + g[a]
    BY <1>1, <1>2, <1>3, TotalChanges
<1>5. Total(g) + n = Total(f)
    BY <1>3, <1>4
<1>6. QED
    BY <1>4, <1>5 DEF g

\* and a credit adds it.
LEMMA CreditTotal ==
    ASSUME NEW f, IsPurse(f, Nodes \cup Safes), NEW a \in Nodes \cup Safes, NEW n \in Nat
    PROVE  /\ Total(f) \in Nat /\ Total(Credit(f, a, n)) \in Nat
           /\ Total(Credit(f, a, n)) = Total(f) + n
<1> DEFINE g == Credit(f, a, n)
<1>1. IsSummable(f)
    BY ChainSummable
<1>2. IsSummable(g)
    <2>1. IsPurse(g, Nodes \cup Safes)
        BY CreditedPurse
    <2>2. QED
        BY <2>1, ChainSummable
<1>3. IsChanged(f, g, a) /\ g[a] = At(f, a) + n /\ At(f, a) \in Nat
    BY DEF IsChanged, Credit, Put, At, IsPurse
<1> HIDE DEF g
<1>4. /\ Total(f) \in Nat /\ Total(g) \in Nat
      /\ Total(g) + At(f, a) = Total(f) + g[a]
    BY <1>1, <1>2, <1>3, TotalChanges
<1>5. Total(g) = Total(f) + n
    BY <1>3, <1>4
<1>6. QED
    BY <1>4, <1>5 DEF g

\* The balance of a channel, 0 before it is opened.
BalanceOf(c, id) == IF id \in DOMAIN c.channels THEN c.channels[id].balance ELSE 0

\* Replacing or creating a channel changes the total by the difference.
LEMMA BalancesTotal ==
    ASSUME NEW c, AreEntries(c.channels), NEW d, NEW id, NEW e,
           d.channels = Put(c.channels, id, e), AreEntries(d.channels)
    PROVE  /\ Total(Balances(c)) \in Nat /\ Total(Balances(d)) \in Nat
           /\ BalanceOf(c, id) \in Nat /\ e.balance \in Nat
           /\ Total(Balances(d)) + BalanceOf(c, id) = Total(Balances(c)) + e.balance
<1> DEFINE f == Balances(c)
           g == Balances(d)
<1>1. IsSummable(f) /\ IsSummable(g)
    BY BalancesSummable
<1>2. IsChanged(f, g, id) /\ g[id] = e.balance /\ At(f, id) = BalanceOf(c, id)
    BY DEF IsChanged, At, Balances, Put, BalanceOf
<1> HIDE DEF f, g
<1>3. /\ Total(f) \in Nat /\ Total(g) \in Nat /\ At(f, id) \in Nat /\ g[id] \in Nat
      /\ Total(g) + At(f, id) = Total(f) + g[id]
    BY <1>1, <1>2, TotalChanges
<1>4. QED
    BY <1>2, <1>3 DEF f, g

\* The totals of a chain are numbers.
LEMMA TotalsAreNumbers ==
    ASSUME NEW c, IsChain(c)
    PROVE  Total(c.token) \in Nat /\ Total(Balances(c)) \in Nat
<1>1. ASSUME NEW p, IsSummable(p)
      PROVE  Total(p) \in Nat
    <2>1. IsFiniteSet(Units(p, DOMAIN p)) /\ Cardinality(Units(p, DOMAIN p)) \in Nat
        BY <1>1, UnitsFinite
    <2>2. QED
        BY <2>1 DEF Total, Units
<1>2. IsSummable(c.token) /\ IsSummable(Balances(c))
    BY ChainSummable, BalancesSummable DEF IsChain
<1>3. QED
    BY <1>1, <1>2

\* A transaction that leaves purses and channels alone conserves the tokens.
LEMMA SameSupply ==
    ASSUME NEW c, IsChain(c), NEW d, d.token = c.token, d.channels = c.channels
    PROVE  Conserves(c, d) /\ Conserves(c, c)
<1>1. Total(c.token) \in Nat /\ Total(Balances(c)) \in Nat
    BY TotalsAreNumbers
<1>2. Balances(d) = Balances(c)
    BY DEF Balances
<1>3. QED
    BY <1>1, <1>2 DEF Conserves, TokenSupply

\* Registering, announcing and approving move no token.
LEMMA BookkeepingConserves ==
    ASSUME NEW c, IsChain(c), NEW tx
    PROVE  /\ Conserves(c, RegisterSafe(c, tx).chain)
           /\ Conserves(c, Announce(c, tx).chain)
           /\ Conserves(c, Approve(c, tx).chain)
<1> DEFINE Kept(d) == d.token = c.token /\ d.channels = c.channels
<1>1. Kept(RegisterSafe(c, tx).chain)
    BY DEF RegisterSafe, Ok, Err, IsChain
<1>2. Kept(Announce(c, tx).chain)
    BY DEF Announce, Ok, Err, IsChain
<1>3. Kept(Approve(c, tx).chain)
    BY DEF Approve, Ok, Err, IsChain
<1>4. QED
    BY <1>1, <1>2, <1>3, SameSupply

\* A withdrawal moves tokens from one purse to another.
LEMMA WithdrawConserves ==
    ASSUME NEW c, IsChain(c),
           NEW tx \in [action : {"Withdraw"}, sender : Nodes, purse : {"native", "token"},
                       payer : {"Eoa", "Safe"}, destination : Nodes \cup Safes, amount : Nat]
    PROVE  Conserves(c, Withdraw(c, tx).chain)
<1> DEFINE payer == IF tx.payer = "Eoa" THEN tx.sender ELSE SafeOf(c, tx.sender)
           f == Credit(Debit(c[tx.purse], payer, tx.amount), tx.destination, tx.amount)
           d == [c EXCEPT ![tx.purse] = f]
<1>0. tx.amount \in Nat /\ tx.destination \in Nodes \cup Safes /\ tx.purse \in {"native", "token"}
    OBVIOUS
<1>1. \/ Withdraw(c, tx).chain = c
      \/ Withdraw(c, tx).chain = d /\ Holds(c[tx.purse], payer, tx.amount)
    BY DEF Withdraw, Ok, Err
<1>2. Conserves(c, c)
    BY SameSupply
<1>3. ASSUME Holds(c[tx.purse], payer, tx.amount)
      PROVE  Conserves(c, d)
    <2> HIDE DEF payer
    <2>1. CASE tx.purse = "native"
        <3>1. d.token = c.token /\ d.channels = c.channels
            BY <2>1 DEF IsChain
        <3> HIDE DEF d
        <3>2. QED
            BY <3>1, SameSupply
    <2>2. CASE tx.purse = "token"
        <3> DEFINE g == Debit(c.token, payer, tx.amount)
        <3>0. IsPurse(c.token, Nodes \cup Safes) /\ Holds(c.token, payer, tx.amount)
            BY <1>3, <2>2 DEF IsChain
        <3>1. f = Credit(g, tx.destination, tx.amount)
            BY <2>2
        <3>2. d.token = f /\ d.channels = c.channels
            <4> HIDE DEF f
            <4>1. QED
                BY <2>2 DEF IsChain
        <3>3. IsPurse(g, Nodes \cup Safes)
            BY <1>0, <3>0, DebitedPurse
        <3>4. Total(c.token) \in Nat /\ Total(g) \in Nat /\ Total(g) + tx.amount = Total(c.token)
            BY <1>0, <3>0, DebitTotal
        <3> HIDE DEF g, f
        <3>5. Total(f) = Total(g) + tx.amount
            BY <1>0, <3>1, <3>3, CreditTotal
        <3>6. Balances(d) = Balances(c)
            <4> HIDE DEF d
            <4>1. QED
                BY <3>2 DEF Balances
        <3>7. Total(d.token) = Total(c.token)
            <4> HIDE DEF d
            <4>1. QED
                BY <3>2, <3>4, <3>5
        <3>8. Total(Balances(c)) \in Nat
            BY TotalsAreNumbers
        <3> HIDE DEF d
        <3>9. QED
            BY <3>4, <3>6, <3>7, <3>8 DEF Conserves, TokenSupply
    <2>3. QED
        BY <1>0, <2>1, <2>2
<1>4. QED
    BY <1>1, <1>2, <1>3

\* The stake of a funding is in the channel afterwards.
LEMMA FundedBalance ==
    ASSUME NEW channel \in Entry, NEW stake \in Nat
    PROVE  Funded(channel, stake).balance = channel.balance + stake
<1>1. CASE channel.status = "Closed"
    <2> DEFINE reopened == [channel EXCEPT !.status = "Open", !.index = 0,
                                           !.closure = 0, !.epoch = @ + 1]
    <2>1. DOMAIN reopened = DOMAIN channel /\ reopened.balance = channel.balance
        BY DEF Entry
    <2>2. Funded(channel, stake) = [reopened EXCEPT !.balance = @ + stake]
        BY <1>1 DEF Funded
    <2>3. "balance" \in DOMAIN channel
        BY DEF Entry
    <2> HIDE DEF reopened
    <2>4. QED
        BY <2>1, <2>2, <2>3
<1>2. CASE channel.status # "Closed"
    BY <1>2 DEF Funded, Entry
<1>3. QED
    BY <1>1, <1>2

\* Funding moves tokens from a safe into a channel, or loses them where the allowance
\* refuses it.
LEMMA FundConserves ==
    ASSUME NEW c, IsChain(c),
           NEW tx \in [action : {"FundChannel"}, sender : Nodes, destination : Nodes, stake : Nat],
           tx.sender # tx.destination
    PROVE  Conserves(c, FundChannel(c, tx).chain)
<1> DEFINE safe == SafeOf(c, tx.sender)
           id == <<tx.sender, tx.destination>>
           channel == IF id \in DOMAIN c.channels THEN c.channels[id] ELSE NewChannel
           debited == [c EXCEPT !.token = Debit(@, safe, tx.stake)]
           d == [debited EXCEPT
                    !.allowance = Debit(@, safe, tx.stake),
                    !.channels = Put(@, id, Funded(channel, tx.stake))]
           e == Funded(channel, tx.stake)
           r == FundChannel(c, tx)
<1>0. tx.stake \in Nat
    OBVIOUS
<1>1. IsChain(r.chain)
    BY FundChannelResult DEF IsResult
<1>2. \/ r.chain = c
      \/ /\ r.chain = debited /\ Holds(c.token, safe, tx.stake)
         /\ tx.stake # 0 /\ ~Holds(c.allowance, safe, tx.stake)
      \/ r.chain = d /\ Holds(c.token, safe, tx.stake)
    BY DEF FundChannel, Ok, Err
<1> HIDE DEF r
<1>3. CASE r.chain = c
    BY <1>3, SameSupply DEF r
<1>4. /\ debited.token = Debit(c.token, safe, tx.stake)
      /\ debited.channels = c.channels /\ debited.allowance = c.allowance
      /\ d.token = Debit(c.token, safe, tx.stake)
      /\ d.channels = Put(c.channels, id, e)
    <2> HIDE DEF channel, id, safe
    <2>1. QED
        BY DEF IsChain
<1>5. channel \in Entry /\ channel.balance = BalanceOf(c, id)
    BY DEF NewChannel, Entry, IsChain, AreEntries, BalanceOf
<1> HIDE DEF channel, safe, id
<1>6. e.balance = BalanceOf(c, id) + tx.stake
    BY <1>0, <1>5, FundedBalance
<1> HIDE DEF d, debited, e
<1>7. ASSUME Holds(c.token, safe, tx.stake)
      PROVE  /\ Total(c.token) \in Nat /\ Total(Debit(c.token, safe, tx.stake)) \in Nat
             /\ Total(Debit(c.token, safe, tx.stake)) + tx.stake = Total(c.token)
    BY <1>0, <1>7, DebitTotal DEF IsChain
<1>8. Total(Balances(c)) \in Nat
    BY TotalsAreNumbers
<1>9. CASE /\ r.chain = debited /\ Holds(c.token, safe, tx.stake)
           /\ tx.stake # 0 /\ ~Holds(c.allowance, safe, tx.stake)
    <2>1. Balances(debited) = Balances(c)
        BY <1>4 DEF Balances
    <2>2. TokenSupply(debited) < TokenSupply(c)
        BY <1>0, <1>4, <1>7, <1>8, <1>9, <2>1 DEF TokenSupply
    <2>3. safe \in DOMAIN c.token /\ c.token[safe] \in Nat
        BY <1>9 DEF Holds, IsChain, IsPurse
    <2>4. debited.token[safe] = c.token[safe] - tx.stake
        BY <1>4, <2>3 DEF Debit
    <2>5. c.token[safe] - debited.token[safe] = tx.stake
        BY <1>0, <2>3, <2>4
    <2>6. RefusedFunding(c, debited)
        BY <1>4, <1>9, <2>3, <2>5 DEF RefusedFunding
    <2>7. QED
        BY <1>9, <2>2, <2>6 DEF r, Conserves
<1>10. CASE r.chain = d /\ Holds(c.token, safe, tx.stake)
    <2>1. AreEntries(c.channels) /\ AreEntries(d.channels)
        BY <1>1, <1>10 DEF IsChain
    <2>2. /\ Total(Balances(d)) \in Nat
          /\ BalanceOf(c, id) \in Nat /\ e.balance \in Nat
          /\ Total(Balances(d)) + BalanceOf(c, id) = Total(Balances(c)) + e.balance
        BY <1>4, <2>1, BalancesTotal
    <2>3. Total(Balances(d)) = Total(Balances(c)) + tx.stake
        BY <1>0, <1>6, <1>8, <2>2
    <2>4. Conserves(c, d)
        BY <1>0, <1>4, <1>7, <1>8, <1>10, <2>3 DEF Conserves, TokenSupply
    <2>5. QED
        BY <1>10, <2>4 DEF r
<1>11. QED
    BY <1>2, <1>3, <1>9, <1>10

\* Closing leaves every balance where it is.
LEMMA ClosuresConserve ==
    ASSUME NEW c, IsChain(c), NEW tx
    PROVE  /\ Conserves(c, InitializeChannelClosure(c, tx).chain)
           /\ Conserves(c, FinalizeChannelClosure(c, tx).chain)
           /\ Conserves(c, IncomingChannelClosure(c, tx).chain)
<1> DEFINE old == c.channels[tx.id]
           pending == [old EXCEPT !.status = "PendingToClose", !.closure = tx.closure]
           closed == [old EXCEPT !.status = "Closed"]
           With(e) == [c EXCEPT !.channels = [c.channels EXCEPT ![tx.id] = e]]
<1>1. Conserves(c, c)
    BY SameSupply
<1>2. CASE tx.id \notin DOMAIN c.channels
    BY <1>1, <1>2 DEF InitializeChannelClosure, FinalizeChannelClosure, IncomingChannelClosure, Err
<1>3. CASE tx.id \in DOMAIN c.channels
    <2>1. pending.balance = old.balance /\ closed.balance = old.balance
        <3>1. old \in Entry
            BY <1>3 DEF IsChain, AreEntries
        <3> HIDE DEF old
        <3>2. QED
            BY <3>1 DEF Entry
    <2>2. /\ InitializeChannelClosure(c, tx).chain = With(pending)
          /\ FinalizeChannelClosure(c, tx).chain \in {c, With(closed)}
          /\ IncomingChannelClosure(c, tx).chain = With(closed)
        BY <1>3 DEF InitializeChannelClosure, FinalizeChannelClosure, IncomingChannelClosure, IsChain, Ok, Err
    <2>3. ASSUME NEW e, e.balance = old.balance
          PROVE  Conserves(c, With(e))
        <3> DEFINE d == With(e)
        <3>1. d.token = c.token /\ d.channels = [c.channels EXCEPT ![tx.id] = e]
            BY DEF IsChain
        <3> HIDE DEF d
        <3>2. Balances(d) = Balances(c)
            BY <2>3, <3>1 DEF Balances
        <3>3. Total(c.token) \in Nat /\ Total(Balances(c)) \in Nat
            BY TotalsAreNumbers
        <3>4. Conserves(c, d)
            BY <3>1, <3>2, <3>3 DEF Conserves, TokenSupply
        <3>5. QED
            BY <3>4 DEF d
    <2> HIDE DEF pending, closed, With
    <2>4. Conserves(c, With(pending)) /\ Conserves(c, With(closed))
        BY <2>1, <2>3
    <2>5. QED
        BY <1>1, <2>2, <2>4
<1>4. QED
    BY <1>2, <1>3

\* A ticket's value leaves its channel for the channel back or for a safe, or is lost where
\* there is neither.
LEMMA RedeemConserves ==
    ASSUME NEW c, IsChain(c),
           NEW tx \in [action : {"RedeemTicket"}, sender : Nodes, id : ChannelIds,
                       index : Nat, amount : Nat]
    PROVE  Conserves(c, RedeemTicket(c, tx).chain)
<1> DEFINE old == c.channels[tx.id]
           e == Redeemed(old, tx)
           mid == [c EXCEPT !.channels = Put(@, tx.id, e)]
           back == Opposite(tx.id)
           safe == SafeOf(mid, tx.id[2])
           r == RedeemTicket(c, tx)
<1>1. IsChain(r.chain)
    BY RedeemTicketResult DEF IsResult
<1>2. CASE r = Err(c)
    BY <1>2, SameSupply DEF Err
<1>3. CASE /\ tx.id \in DOMAIN c.channels
           /\ ~(old.balance < tx.amount) /\ ~(old.index > tx.index)
           /\ r = Ok(PaidOut([c EXCEPT !.channels[tx.id] = Redeemed(@, tx)], tx))
    <2>1. /\ old \in Entry /\ tx.amount \in Nat /\ tx.index \in Nat /\ tx.id \in ChannelIds
          /\ AreEntries(c.channels) /\ BalanceOf(c, tx.id) = old.balance
        BY <1>3 DEF IsChain, AreEntries, BalanceOf
    <2>2. e \in Entry /\ e.balance = old.balance - tx.amount /\ old.balance \in Nat
        <3>1. old.balance - tx.amount \in Nat /\ tx.index + 1 \in Nat /\ old.balance \in Nat
            BY <1>3, <2>1 DEF Entry
        <3> HIDE DEF old
        <3>2. QED
            BY <2>1, <3>1 DEF Entry, Redeemed
    <2>3. [c EXCEPT !.channels[tx.id] = Redeemed(@, tx)] = mid
        <3>1. [c EXCEPT !.channels[tx.id] = Redeemed(@, tx)]
                = [c EXCEPT !.channels = [c.channels EXCEPT ![tx.id] = e]]
            BY DEF IsChain
        <3> HIDE DEF e
        <3>2. QED
            BY <3>1, <1>3, ExceptIsPut
    <2>4. r.chain = PaidOut(mid, tx)
        BY <1>3, <2>3 DEF Ok
    <2> HIDE DEF e, r
    <2>5. /\ DOMAIN mid = DOMAIN c /\ mid.token = c.token
          /\ mid.redeemed = c.redeemed /\ mid.channels = Put(c.channels, tx.id, e)
          /\ mid.account = c.account
        BY DEF IsChain
    <2> HIDE DEF mid
    <2>6. AreEntries(mid.channels)
        BY <2>1, <2>2, <2>5 DEF AreEntries, Put
    <2>7. /\ Total(Balances(c)) \in Nat /\ Total(Balances(mid)) \in Nat
          /\ Total(Balances(mid)) + BalanceOf(c, tx.id) = Total(Balances(c)) + e.balance
        BY <2>1, <2>5, <2>6, BalancesTotal
    <2>8. Total(Balances(mid)) + tx.amount = Total(Balances(c))
        BY <2>1, <2>2, <2>7
    <2>9. Total(c.token) \in Nat
        BY TotalsAreNumbers
    <2>10. CASE back \in DOMAIN mid.channels
        <3> DEFINE m == mid.channels[back]
                   g == [m EXCEPT !.balance = @ + tx.amount]
                   d == [mid EXCEPT !.channels = Put(@, back, g)]
        <3>1. PaidOut(mid, tx) = d
            <4>1. PaidOut(mid, tx) = [mid EXCEPT !.channels = [mid.channels EXCEPT ![back] = g]]
                BY <2>5, <2>10 DEF PaidOut, IsChain
            <4> HIDE DEF g, back
            <4>2. QED
                BY <4>1, <2>10, ExceptIsPut
        <3>2. g.balance = BalanceOf(mid, back) + tx.amount
            <4>1. m \in Entry
                BY <2>6, <2>10 DEF AreEntries
            <4>2. m.balance = BalanceOf(mid, back)
                BY <2>10 DEF BalanceOf
            <4> HIDE DEF m
            <4>3. QED
                BY <4>1, <4>2 DEF Entry
        <3> HIDE DEF g, back
        <3>3. d.token = mid.token /\ d.channels = Put(mid.channels, back, g)
            BY <2>5 DEF IsChain
        <3> HIDE DEF d
        <3>4. AreEntries(d.channels)
            BY <1>1, <2>4, <3>1 DEF IsChain
        <3>5. /\ Total(Balances(d)) \in Nat /\ BalanceOf(mid, back) \in Nat
              /\ Total(Balances(d)) + BalanceOf(mid, back) = Total(Balances(mid)) + g.balance
            BY <2>6, <3>3, <3>4, BalancesTotal
        <3>6. Total(Balances(d)) = Total(Balances(c))
            BY <2>1, <2>7, <2>8, <3>2, <3>5
        <3>7. Conserves(c, d)
            BY <2>5, <2>7, <2>9, <3>3, <3>6 DEF Conserves, TokenSupply
        <3>8. QED
            BY <2>4, <3>1, <3>7 DEF r
    <2>11. CASE back \notin DOMAIN mid.channels /\ safe \in DOMAIN mid.token
        <3> DEFINE d == [mid EXCEPT !.token[safe] = @ + tx.amount,
                                    !.redeemed = Credit(@, safe, tx.amount)]
        <3>1. PaidOut(mid, tx) = d
            BY <2>11 DEF PaidOut
        <3> HIDE DEF safe
        <3>2. d.channels = mid.channels /\ d.token = [mid.token EXCEPT ![safe] = @ + tx.amount]
            BY <2>5 DEF IsChain
        <3> HIDE DEF d
        <3>3. IsPurse(c.token, Nodes \cup Safes) /\ IsPurse(d.token, Nodes \cup Safes)
            BY <1>1, <2>4, <3>1 DEF IsChain
        <3>4. IsSummable(c.token) /\ IsSummable(d.token)
            BY <3>3, ChainSummable
        <3>5. /\ IsChanged(c.token, d.token, safe) /\ c.token[safe] \in Nat
              /\ d.token[safe] = c.token[safe] + tx.amount /\ At(c.token, safe) = c.token[safe]
            BY <2>5, <2>11, <3>2, <3>3 DEF IsChanged, At, IsPurse
        <3>6. /\ Total(d.token) \in Nat
              /\ Total(d.token) + At(c.token, safe) = Total(c.token) + d.token[safe]
            BY <3>4, <3>5, TotalChanges
        <3>7. Total(d.token) = Total(c.token) + tx.amount
            BY <2>1, <2>9, <3>5, <3>6
        <3>8. Balances(d) = Balances(mid)
            BY <3>2 DEF Balances
        <3>9. Conserves(c, d)
            BY <2>1, <2>7, <2>8, <2>9, <3>7, <3>8 DEF Conserves, TokenSupply
        <3>10. QED
            BY <2>4, <3>1, <3>9 DEF r
    <2>12. CASE back \notin DOMAIN mid.channels /\ safe \notin DOMAIN mid.token
        <3>1. PaidOut(mid, tx) = mid
            BY <2>12 DEF PaidOut
        <3>2. CASE tx.amount = 0
            BY <2>4, <2>5, <2>7, <2>8, <2>9, <3>1, <3>2 DEF Conserves, TokenSupply, r
        <3>3. CASE tx.amount # 0
            <4>1. TokenSupply(mid) < TokenSupply(c)
                BY <2>1, <2>5, <2>7, <2>8, <2>9, <3>3 DEF TokenSupply
            <4>2. /\ mid.channels[tx.id] = e /\ DOMAIN c.channels \subseteq DOMAIN mid.channels
                  /\ mid.channels = Put(c.channels, tx.id, mid.channels[tx.id])
                BY <2>5 DEF Put
            <4>3. e.index > old.index
                <5>1. old.index \in Nat
                    BY <2>1 DEF Entry
                <5>2. e.index = tx.index + 1
                    <6> HIDE DEF old
                    <6>1. QED
                        BY <2>1 DEF e, Redeemed, Entry
                <5>3. QED
                    BY <1>3, <2>1, <5>1, <5>2
            <4>4. SafeOf(c, tx.id[2]) \notin DOMAIN c.token
                BY <2>5, <2>12 DEF SafeOf
            <4>5. UnclaimedTicket(c, mid)
                BY <1>3, <2>5, <2>12, <4>2, <4>3, <4>4 DEF UnclaimedTicket
            <4>6. QED
                BY <2>4, <3>1, <4>1, <4>5 DEF Conserves, r
        <3>4. QED
            BY <3>2, <3>3
    <2>13. QED
        BY <2>10, <2>11, <2>12
<1>4. QED
    BY <1>2, <1>3 DEF RedeemTicket

\* So does every transaction, whether it succeeds or fails half-way.
LEMMA EffectConserves ==
    ASSUME NEW c, IsChain(c), NEW tx \in Txs
    PROVE  Conserves(c, Effect(c, tx).chain)
<1>1. CASE tx.action \in {"RegisterSafe", "Announce", "Approve"}
    <2>1. Effect(c, tx) \in {RegisterSafe(c, tx), Announce(c, tx), Approve(c, tx)}
        BY <1>1 DEF Effect
    <2>2. QED
        BY <2>1, BookkeepingConserves
<1>2. CASE tx \in [action : {"Withdraw"}, sender : Nodes, purse : {"native", "token"},
                   payer : {"Eoa", "Safe"}, destination : Nodes \cup Safes, amount : Nat]
    <2>1. Effect(c, tx) = Withdraw(c, tx)
        BY <1>2 DEF Effect
    <2>2. QED
        BY <1>2, <2>1, WithdrawConserves
<1>3. CASE /\ tx \in [action : {"FundChannel"}, sender : Nodes, destination : Nodes, stake : Nat]
           /\ tx.sender # tx.destination
    <2>1. Effect(c, tx) = FundChannel(c, tx)
        BY <1>3 DEF Effect
    <2>2. QED
        BY <1>3, <2>1, FundConserves
<1>4. CASE tx.action \in {"InitializeChannelClosure", "FinalizeChannelClosure",
                          "IncomingChannelClosure"}
    <2>1. Effect(c, tx) \in {InitializeChannelClosure(c, tx), FinalizeChannelClosure(c, tx),
                             IncomingChannelClosure(c, tx)}
        BY <1>4 DEF Effect
    <2>2. QED
        BY <2>1, ClosuresConserve
<1>5. CASE tx \in [action : {"RedeemTicket"}, sender : Nodes, id : ChannelIds,
                   index : Nat, amount : Nat]
    <2>1. Effect(c, tx) = RedeemTicket(c, tx)
        BY <1>5 DEF Effect
    <2>2. QED
        BY <1>5, <2>1, RedeemConserves
<1>6. QED
    BY <1>1, <1>2, <1>3, <1>4, <1>5 DEF Txs

\* And so does what the client commits of it, after the count and the fee.
LEMMA CommittedConserves ==
    ASSUME NEW c, IsChain(c), NEW tx \in Txs, NEW r \in Committed(c, tx)
    PROVE  Conserves(c, r.chain)
<1> DEFINE effect == Effect(c, tx)
           charged == IF effect.ok THEN Charged(effect.chain, tx.sender) ELSE effect
<1>1. IsChain(effect.chain) /\ tx.sender \in Nodes /\ Conserves(c, effect.chain)
    BY EffectResult, EffectConserves DEF IsResult
<1> HIDE DEF effect
<1>2. Conserves(c, charged.chain)
    <2>1. CASE effect.ok
        <3> DEFINE d == effect.chain
                   p == Charged(d, tx.sender).chain
        <3>1. p.token = d.token /\ p.channels = d.channels /\ p.allowance = d.allowance
            <4> HIDE DEF d
            <4>1. IsChain(d)
                BY <1>1 DEF d
            <4>2. QED
                BY <4>1 DEF Charged, Ok, Err, IsChain
        <3> HIDE DEF p, d
        <3>2. Balances(p) = Balances(d)
            BY <3>1 DEF Balances
        <3>3. TokenSupply(p) = TokenSupply(d)
            BY <3>1, <3>2 DEF TokenSupply
        <3>4. /\ RefusedFunding(c, d) => RefusedFunding(c, p)
              /\ UnclaimedTicket(c, d) => UnclaimedTicket(c, p)
            BY <3>1 DEF RefusedFunding, UnclaimedTicket
        <3>5. Conserves(c, d)
            BY <1>1 DEF d
        <3>6. Conserves(c, p)
            BY <3>3, <3>4, <3>5 DEF Conserves
        <3>7. QED
            BY <2>1, <3>6 DEF p, d
    <2>2. CASE ~effect.ok
        BY <1>1, <2>2
    <2>3. QED
        BY <2>1, <2>2
<1> HIDE DEF charged
<1>3. \A s \in UpdateState(c, tx) : s = charged \/ s = Err(charged.chain)
    BY DEF UpdateState, effect, charged
<1>4. PICK s \in UpdateState(c, tx) : r = s \/ r = Err(c)
    BY DEF Committed
<1>5. r = charged \/ r = Err(charged.chain) \/ r = Err(c)
    BY <1>3, <1>4
<1>6. QED
    BY <1>2, <1>5, SameSupply DEF Err

\* Whatever transactions of any nodes interleave, fail half-way or are reverted, the tokens
\* of all purses and channels together stay the same, but for the debit of a refused funding
\* and for a ticket nobody can be paid.
THEOREM SupplyIsConserved == Spec => TokensConserved
<1> DEFINE IInv == CallsInv /\ IsChain(chain)
<1>1. ConnectorInit => IInv
    BY CallsStart, EmulatorAssumption DEF ConnectorInit, EmulatorInit
<1>2. IInv /\ [Next]_vars => IInv'
    BY CallsStep, ChainStep
<1>3. IInv /\ [Next]_vars => [Conserves(chain, chain')]_vars
    <2> SUFFICES ASSUME IInv, [Next]_vars
                 PROVE  Conserves(chain, chain')
        OBVIOUS
    <2>1. CASE chain' = chain
        BY <2>1, SameSupply
    <2>2. ASSUME NEW tx \in Txs, NEW outcome \in BOOLEAN, Commit(tx, outcome)
          PROVE  Conserves(chain, chain')
        BY <2>2, CommittedConserves DEF Commit
    <2>3. QED
        BY <2>1, <2>2, ChainSteps
<1>4. QED
    BY <1>1, <1>2, <1>3, PTL DEF Spec, TokensConserved
=============================================================================
