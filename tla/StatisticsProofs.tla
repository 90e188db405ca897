--------------------------- MODULE StatisticsProofs ---------------------------
(***************************************************************************)
(* Proofs about the statistics, for every value of their constants: the    *)
(* ring of WindowedRatio keeps the live slices exact and its reads are     *)
(* those of all the records; the running sum of SingleSumSMA never drifts; *)
(* the exponential average stays among its samples; a weighted choice is   *)
(* proportional to the weights.                                            *)
(***************************************************************************)
EXTENDS WindowedRatio, MovingAverage, ExponentialAverage, WeightedChoice,
        FiniteSetTheorems, WellFoundedInduction, TLAPS

-----------------------------------------------------------------------------
(* Induction and recursion. *)

\* A set of numbers with 0 and with the successor of each member holds every number.
LEMMA SetInduction ==
    ASSUME NEW T, T \subseteq Nat, 0 \in T, \A n \in T : n + 1 \in T
    PROVE  T = Nat
<1> SUFFICES ASSUME T # Nat
             PROVE  FALSE
    OBVIOUS
<1> DEFINE Less == {x \in Nat \X Nat : x[1] < x[2]}
           Out == Nat \ T
<1>1. IsWellFoundedOn(Less, Nat)
    <2>1. Less = OpToRel(<, Nat)
        BY DEF OpToRel
    <2>2. QED
        BY <2>1, NatLessThanWellFounded, Zenon
<1>2. PICK x \in Out : \A y \in Out : ~(<<y, x>> \in Less)
    <2>1. Out \subseteq Nat /\ Out # {}
        OBVIOUS
    <2> HIDE DEF Less, Out
    <2>2. QED
        BY <1>1, <2>1, WFMin, Zenon
<1>3. x \in Nat /\ x \notin T /\ x # 0
    BY <1>2
<1>4. x - 1 \in Nat /\ x - 1 < x /\ (x - 1) + 1 = x
    BY <1>3
<1>5. x - 1 \in T
    <2> SUFFICES ASSUME x - 1 \in Out
                 PROVE  FALSE
        BY <1>4
    <2>1. <<x - 1, x>> \in Less
        BY <1>3, <1>4
    <2>2. QED
        BY <1>2, <2>1, Zenon
<1>6. QED
    BY <1>3, <1>4, <1>5

\* A recursion along the numbers up to n: step[i] takes the value at i - 1 to the one at i.
Recursion(V, base, step, n, g) ==
    /\ g \in [0..n -> V]
    /\ g[0] = base
    /\ \A i \in Nat : i < n => g[i + 1] = step[i + 1][g[i]]

\* Every such recursion has a solution.
LEMMA RecursionExists ==
    ASSUME NEW V, NEW base \in V, NEW N \in Nat, NEW step \in [1..N -> [V -> V]]
    PROVE  \E g : Recursion(V, base, step, N, g)
<1> DEFINE Solves(n, g) == /\ g \in [0..n -> V]
                           /\ g[0] = base
                           /\ \A i \in Nat : i < n => g[i + 1] = step[i + 1][g[i]]
           T == {n \in Nat : n <= N => \E g : Solves(n, g)}
<1>1. 0 \in T
    <2> DEFINE g == [i \in 0..0 |-> base]
    <2>1. g \in [0..0 -> V] /\ g[0] = base
        OBVIOUS
    <2> HIDE DEF g
    <2>2. Solves(0, g)
        BY <2>1
    <2>3. QED
        BY <2>2
<1>2. ASSUME NEW m \in T
      PROVE  m + 1 \in T
    <2> SUFFICES ASSUME m + 1 <= N
                 PROVE  \E g : Solves(m + 1, g)
        OBVIOUS
    <2>0. m \in Nat /\ m <= N /\ m + 1 \in 1..N
        OBVIOUS
    <2>1. PICK g : Solves(m, g)
        BY <2>0
    <2> DEFINE v == step[m + 1][g[m]]
               h == [i \in 0 .. m + 1 |-> IF i = m + 1 THEN v ELSE g[i]]
    <2>2. v \in V
        <3>1. g[m] \in V
            BY <2>0, <2>1
        <3>2. step[m + 1] \in [V -> V]
            BY <2>0
        <3>3. QED
            BY <3>1, <3>2
    <2>3. h \in [0 .. m + 1 -> V]
        <3> HIDE DEF v
        <3>1. QED
            BY <2>0, <2>1, <2>2
    <2>4. h[m + 1] = v /\ \A i \in 0..m : h[i] = g[i]
        BY <2>0
    <2> HIDE DEF h
    <2>5. ASSUME NEW i \in Nat, i < m + 1
          PROVE  h[i + 1] = step[i + 1][h[i]]
        <3>1. i \in 0..m /\ h[i] = g[i]
            BY <2>0, <2>4, <2>5
        <3>2. CASE i = m
            BY <2>4, <3>1, <3>2
        <3>3. CASE i < m
            <4>1. i + 1 \in 0..m /\ h[i + 1] = g[i + 1]
                BY <2>0, <2>4, <3>3
            <4>2. g[i + 1] = step[i + 1][g[i]]
                BY <2>1, <3>3
            <4>3. QED
                BY <3>1, <4>1, <4>2
        <3>4. QED
            BY <2>0, <2>5, <3>2, <3>3
    <2>6. h[0] = base
        BY <2>0, <2>1, <2>4
    <2>7. Solves(m + 1, h)
        BY <2>3, <2>5, <2>6
    <2>8. QED
        BY <2>7
<1>3. T = Nat
    <2> HIDE DEF T
    <2>1. T \subseteq Nat
        BY DEF T
    <2>2. QED
        BY <1>1, <1>2, <2>1, SetInduction
<1>4. PICK g : Solves(N, g)
    BY <1>3
<1>5. QED
    BY <1>4 DEF Recursion

-----------------------------------------------------------------------------
(* Arithmetic. *)

\* The quotient of a natural by a positive one.
LEMMA Division ==
    ASSUME NEW x \in Nat, NEW k \in Nat \ {0}
    PROVE  /\ x \div k \in Nat /\ x % k \in 0 .. k - 1
           /\ x = k * (x \div k) + (x % k)
OBVIOUS

\* Two slices that share a slot are a whole ring apart.
LEMMA SameSlotFarApart ==
    ASSUME NEW x \in Nat, NEW y \in Nat, x % BUCKETS = y % BUCKETS, x > y
    PROVE  x >= y + BUCKETS
<1> DEFINE p == x \div BUCKETS
           q == y \div BUCKETS
<1>0. BUCKETS \in Nat \ {0}
    BY RatioAssumption
<1>1. /\ p \in Nat /\ q \in Nat /\ BUCKETS \in Nat \ {0}
      /\ x = BUCKETS * p + (x % BUCKETS)
      /\ y = BUCKETS * q + (x % BUCKETS)
      /\ x % BUCKETS \in Nat
    <2>1. /\ p \in Nat /\ x % BUCKETS \in 0 .. BUCKETS - 1
          /\ x = BUCKETS * p + (x % BUCKETS)
        BY <1>0, Division, Zenon
    <2>2. /\ q \in Nat
          /\ y = BUCKETS * q + (y % BUCKETS)
        BY <1>0, Division, Zenon
    <2>3. x % BUCKETS \in Nat
        BY <1>0, <2>1
    <2>4. QED
        BY <1>0, <2>1, <2>2, <2>3, Zenon
<1> HIDE DEF p, q
<1>2. p > q
    <2>1. SUFFICES ASSUME p <= q PROVE FALSE
        BY <1>1
    <2>2. BUCKETS * p <= BUCKETS * q
        BY <1>1, <2>1
    <2>3. QED
        BY <1>1, <2>2
<1>3. BUCKETS * p >= BUCKETS * q + BUCKETS
    <2>1. BUCKETS * p >= BUCKETS * (q + 1)
        BY <1>1, <1>2
    <2>2. BUCKETS * (q + 1) = BUCKETS * q + BUCKETS
        BY <1>1
    <2>3. QED
        BY <1>1, <2>1, <2>2
<1>4. QED
    BY <1>1, <1>3

\* A tick within the horizon belongs to one of the slices.
LEMMA SliceOfTick ==
    ASSUME NEW now \in Ticks
    PROVE  AbsoluteBucket(now) \in Slices
<1>0. Slices = 0 .. Horizon \div Width
    BY RatioAssumption, Division DEF Slices, SliceCount
<1>1. Width \in Nat \ {0} /\ Horizon \in Nat
    BY RatioAssumption
<1>2. Horizon \div Width \in Nat
    BY <1>1, Division
<1>3. CASE now < 0
    BY <1>0, <1>2, <1>3 DEF AbsoluteBucket
<1>4. CASE ~(now < 0)
    <2> DEFINE q == now \div Width
               h == Horizon \div Width
    <2>1. now \in Nat /\ now <= Horizon
        BY <1>1, <1>4 DEF Ticks
    <2>2. /\ q \in Nat /\ h \in Nat
          /\ Width * q <= now
          /\ Horizon < Width * h + Width
        <3>1. q \in Nat /\ now % Width \in 0 .. Width - 1 /\ now = Width * q + (now % Width)
            BY <1>1, <2>1, Division, Zenon
        <3>2. /\ h \in Nat /\ Horizon % Width \in 0 .. Width - 1
              /\ Horizon = Width * h + (Horizon % Width)
            BY <1>1, Division, Zenon
        <3> HIDE DEF q, h
        <3>3. QED
            BY <1>1, <3>1, <3>2
    <2> HIDE DEF q, h
    <2>3. q <= h
        <3>1. SUFFICES ASSUME q >= h + 1 PROVE FALSE
            BY <2>2
        <3>2. Width * q >= Width * (h + 1)
            BY <1>1, <2>2, <3>1
        <3>3. Width * (h + 1) = Width * h + Width
            BY <1>1, <2>2
        <3>4. QED
            BY <1>1, <2>1, <2>2, <3>2, <3>3
    <2>4. AbsoluteBucket(now) = q
        BY <1>4 DEF AbsoluteBucket, q
    <2>5. QED
        BY <1>0, <2>2, <2>3, <2>4 DEF h
<1>5. QED
    BY <1>3, <1>4

\* A slice is a number, and its slot is one of the ring.
LEMMA SlotOfSlice ==
    ASSUME NEW t \in Slices
    PROVE  t \in Nat /\ t % BUCKETS \in Slots
<1>1. t \in Nat
    BY RatioAssumption, Division DEF Slices, SliceCount
<1>2. QED
    BY <1>1, RatioAssumption, Division DEF Slots

\* A saturating addition stays within u64.
LEMMA SaturatingAddType ==
    ASSUME NEW m \in 0..MaxCount, NEW n \in Counts
    PROVE  SaturatingAdd(m, n) \in 0..MaxCount
BY RatioAssumption DEF SaturatingAdd
-----------------------------------------------------------------------------
(* One record. *)

Totals == [expected : 0..MaxCount, observed : 0..MaxCount]

\* The bucket that holds slice t with the given totals.
Holds(t, n) == [stamp |-> t, expected |-> n.expected, observed |-> n.observed]

\* What both kinds of record do to slice t, whose totals become n: dropped when the
\* slot is ahead of t, the slot brought to t with these totals otherwise.
RecordedAs(t, n) ==
    /\ noted' = [noted EXCEPT ![t] = n]
    /\ newest' = IF t > newest THEN t ELSE newest
    /\ \/ buckets[t % BUCKETS].stamp > t /\ buckets' = buckets
       \/ /\ buckets[t % BUCKETS].stamp <= t
          /\ buckets' = [buckets EXCEPT ![t % BUCKETS] = Holds(t, n)]

\* A bucket of the ring in which slice t has just been counted, by the rule of
\* bucket_at, holds the new totals of the slice.
LEMMA ExpectedIsRecorded ==
    ASSUME RatioTypeOK, RingInv, NEW t \in Slices, NEW count \in Counts,
           \/ \E b \in BucketAt(t) :
                 Claimed(t, [b EXCEPT !.expected = SaturatingAdd(@, count)])
           \/ BucketAt(t) = {} /\ UNCHANGED buckets,
           noted' = [noted EXCEPT ![t].expected = SaturatingAdd(@, count)],
           newest' = IF t > newest THEN t ELSE newest
    PROVE  \E n \in Totals : RecordedAs(t, n)
<1> DEFINE n == [expected |-> SaturatingAdd(noted[t].expected, count),
                 observed |-> noted[t].observed]
           b0 == buckets[t % BUCKETS]
<1>1. t \in Nat /\ t % BUCKETS \in Slots
    BY SlotOfSlice
<1>2. noted[t] \in Totals
    BY DEF RatioTypeOK, Totals
<1>3. n \in Totals
    BY <1>2, SaturatingAddType DEF Totals
<1>4. noted' = [noted EXCEPT ![t] = n]
    <2>1. n = [noted[t] EXCEPT !.expected = SaturatingAdd(noted[t].expected, count)]
        BY <1>2 DEF Totals
    <2> HIDE DEF n
    <2>2. QED
        BY <2>1
<1>5. b0 \in [stamp : Nat, expected : 0..MaxCount, observed : 0..MaxCount]
    BY <1>1 DEF RatioTypeOK
<1>6. CASE b0.stamp > t
    <2>1. BucketAt(t) = {}
        BY <1>1, <1>5, <1>6 DEF BucketAt
    <2>2. QED
        BY <1>3, <1>4, <1>6, <2>1 DEF RecordedAs
<1>7. CASE ~(b0.stamp > t)
    <2>1. PICK b \in BucketAt(t) :
              Claimed(t, [b EXCEPT !.expected = SaturatingAdd(@, count)])
        BY <1>1, <1>5, <1>7 DEF BucketAt
    <2>2. b = Holds(t, noted[t])
        <3>1. CASE b0.stamp = t
            BY <1>1, <1>5, <2>1, <3>1 DEF BucketAt, RingInv, Holds
        <3>2. CASE b0.stamp < t
            BY <1>1, <1>5, <2>1, <3>2 DEF BucketAt, RingInv, Holds, Empty
        <3>3. QED
            BY <1>1, <1>5, <1>7, <3>1, <3>2
    <2>3. [b EXCEPT !.expected = SaturatingAdd(@, count)] = Holds(t, n)
        BY <2>2 DEF Holds
    <2>4. buckets' = [buckets EXCEPT ![t % BUCKETS] = Holds(t, n)]
        BY <2>1, <2>3 DEF Claimed
    <2>5. b0.stamp <= t
        BY <1>1, <1>5, <1>7
    <2>6. RecordedAs(t, n)
        <3> HIDE DEF n
        <3>1. QED
            BY <1>4, <2>4, <2>5 DEF RecordedAs
    <2>7. QED
        BY <1>3, <2>6
<1>8. QED
    BY <1>6, <1>7

\* The same for an observed count.
LEMMA ObservedIsRecorded ==
    ASSUME RatioTypeOK, RingInv, NEW t \in Slices, NEW count \in Counts,
           \/ \E b \in BucketAt(t) :
                 Claimed(t, [b EXCEPT !.observed = SaturatingAdd(@, count)])
           \/ BucketAt(t) = {} /\ UNCHANGED buckets,
           noted' = [noted EXCEPT ![t].observed = SaturatingAdd(@, count)],
           newest' = IF t > newest THEN t ELSE newest
    PROVE  \E n \in Totals : RecordedAs(t, n)
<1> DEFINE n == [expected |-> noted[t].expected,
                 observed |-> SaturatingAdd(noted[t].observed, count)]
           b0 == buckets[t % BUCKETS]
<1>1. t \in Nat /\ t % BUCKETS \in Slots
    BY SlotOfSlice
<1>2. noted[t] \in Totals
    BY DEF RatioTypeOK, Totals
<1>3. n \in Totals
    BY <1>2, SaturatingAddType DEF Totals
<1>4. noted' = [noted EXCEPT ![t] = n]
    <2>1. n = [noted[t] EXCEPT !.observed = SaturatingAdd(noted[t].observed, count)]
        BY <1>2 DEF Totals
    <2> HIDE DEF n
    <2>2. QED
        BY <2>1
<1>5. b0 \in [stamp : Nat, expected : 0..MaxCount, observed : 0..MaxCount]
    BY <1>1 DEF RatioTypeOK
<1>6. CASE b0.stamp > t
    <2>1. BucketAt(t) = {}
        BY <1>1, <1>5, <1>6 DEF BucketAt
    <2>2. QED
        BY <1>3, <1>4, <1>6, <2>1 DEF RecordedAs
<1>7. CASE ~(b0.stamp > t)
    <2>1. PICK b \in BucketAt(t) :
              Claimed(t, [b EXCEPT !.observed = SaturatingAdd(@, count)])
        BY <1>1, <1>5, <1>7 DEF BucketAt
    <2>2. b = Holds(t, noted[t])
        <3>1. CASE b0.stamp = t
            BY <1>1, <1>5, <2>1, <3>1 DEF BucketAt, RingInv, Holds
        <3>2. CASE b0.stamp < t
            BY <1>1, <1>5, <2>1, <3>2 DEF BucketAt, RingInv, Holds, Empty
        <3>3. QED
            BY <1>1, <1>5, <1>7, <3>1, <3>2
    <2>3. [b EXCEPT !.observed = SaturatingAdd(@, count)] = Holds(t, n)
        BY <2>2 DEF Holds
    <2>4. buckets' = [buckets EXCEPT ![t % BUCKETS] = Holds(t, n)]
        BY <2>1, <2>3 DEF Claimed
    <2>5. b0.stamp <= t
        BY <1>1, <1>5, <1>7
    <2>6. RecordedAs(t, n)
        <3> HIDE DEF n
        <3>1. QED
            BY <1>4, <2>4, <2>5 DEF RecordedAs
    <2>7. QED
        BY <1>3, <2>6
<1>8. QED
    BY <1>6, <1>7

\* A record of either kind keeps the types and the invariant of the ring.
LEMMA RecordKeepsRing ==
    ASSUME RatioTypeOK, RingInv, NEW t \in Slices, NEW n \in Totals, RecordedAs(t, n)
    PROVE  RatioTypeOK' /\ RingInv'
<1>1. t \in Nat /\ t % BUCKETS \in Slots
    BY SlotOfSlice
<1>2. newest \in Nat /\ newest' \in Slices /\ newest <= newest' /\ t <= newest' /\ newest' \in Nat
    BY <1>1, SlotOfSlice DEF RatioTypeOK, RecordedAs
<1>3. noted' \in [Slices -> Totals]
    BY DEF RatioTypeOK, RecordedAs, Totals
<1>4. Holds(t, n) \in [stamp : Nat, expected : 0..MaxCount, observed : 0..MaxCount]
    BY <1>1 DEF Holds, Totals
<1>5. /\ buckets' \in [Slots -> [stamp : Nat, expected : 0..MaxCount, observed : 0..MaxCount]]
      /\ \A i \in Slots : \/ buckets'[i] = buckets[i]
                          \/ i = t % BUCKETS /\ buckets'[i] = Holds(t, n)
    <2>1. CASE buckets' = buckets
        BY <2>1 DEF RatioTypeOK
    <2>2. CASE buckets' = [buckets EXCEPT ![t % BUCKETS] = Holds(t, n)]
        <3> DEFINE h == Holds(t, n)
                   i0 == t % BUCKETS
        <3>1. buckets' = [buckets EXCEPT ![i0] = h] /\ i0 \in Slots
            BY <1>1, <2>2
        <3> HIDE DEF h, i0
        <3>2. QED
            BY <1>4, <3>1 DEF RatioTypeOK, h, i0
    <2>3. QED
        BY <2>1, <2>2 DEF RecordedAs
<1>6. \A i \in Slots : buckets'[i].stamp # 0 => buckets'[i].stamp % BUCKETS = i
    BY <1>5 DEF RatioTypeOK, Holds
<1>7. \A i \in Slots : buckets'[i].stamp <= newest'
    BY <1>1, <1>2, <1>5 DEF RatioTypeOK, RingInv, Holds
<1>7a. ASSUME NEW i \in Slots, i # 0, buckets'[i].stamp = 0
       PROVE  buckets'[i].expected = 0 /\ buckets'[i].observed = 0
    <2>1. buckets'[i] = buckets[i]
        <3>1. SUFFICES ASSUME i = t % BUCKETS, t = 0
                       PROVE  FALSE
            BY <1>5, <1>7a DEF Holds
        <3>2. 0 % BUCKETS = 0
            BY RatioAssumption
        <3>3. QED
            BY <1>7a, <3>1, <3>2
    <2>2. QED
        BY <1>7a, <2>1 DEF RingInv
<1>8. ASSUME NEW u \in Slices
      PROVE  LET b == buckets'[u % BUCKETS]
             IN  /\ b.stamp = u => /\ b.expected = noted'[u].expected
                                   /\ b.observed = noted'[u].observed
                 /\ b.stamp < u => noted'[u] = Empty
    <2>1. u \in Nat /\ u % BUCKETS \in Slots
        BY SlotOfSlice
    <2>2. buckets[u % BUCKETS].stamp \in Nat
        BY <2>1 DEF RatioTypeOK
    <2>3. CASE u = t
        BY <1>1, <2>1, <2>2, <2>3 DEF RatioTypeOK, RecordedAs, RingInv, Holds
    <2>4. CASE u # t
        <3>1. noted'[u] = noted[u]
            BY <2>4 DEF RatioTypeOK, RecordedAs
        <3>2. CASE buckets'[u % BUCKETS] = buckets[u % BUCKETS]
            BY <3>1, <3>2 DEF RingInv
        <3>3. CASE buckets'[u % BUCKETS] # buckets[u % BUCKETS]
            <4>1. /\ u % BUCKETS = t % BUCKETS
                  /\ buckets'[u % BUCKETS] = Holds(t, n)
                  /\ buckets[u % BUCKETS].stamp <= t
                BY <1>5, <2>1, <3>3 DEF RecordedAs
            <4>2. buckets'[u % BUCKETS].stamp = t
                BY <4>1 DEF Holds
            <4>3. t < u => noted[u] = Empty
                BY <1>1, <2>1, <2>2, <4>1 DEF RingInv
            <4>4. QED
                BY <2>4, <3>1, <4>2, <4>3
        <3>4. QED
            BY <3>2, <3>3
    <2>5. QED
        BY <2>3, <2>4
<1>9. RatioTypeOK'
    BY <1>2, <1>3, <1>5, <1>6 DEF RatioTypeOK, Totals, Slots, Slices, SliceCount
<1>10. RingInv'
    BY <1>7, <1>7a, <1>8 DEF RingInv, Slots, Slices, SliceCount, Empty
<1>11. QED
    BY <1>9, <1>10
-----------------------------------------------------------------------------
\* Types and ring invariant hold at first and are kept by every record.
LEMMA RingInductive ==
    /\ RatioInit => RatioTypeOK /\ RingInv
    /\ RatioTypeOK /\ RingInv /\ [RatioNext]_ratioVars => (RatioTypeOK /\ RingInv)'
<1>1. RatioInit => RatioTypeOK /\ RingInv
    <2> SUFFICES ASSUME RatioInit PROVE RatioTypeOK /\ RingInv
        OBVIOUS
    <2>1. 0 \in Slices /\ 0 \in 0..MaxCount
        BY RatioAssumption, Division DEF Slices, SliceCount
    <2>2. RatioTypeOK
        BY <2>1 DEF RatioInit, RatioTypeOK, Empty
    <2>3. \A t \in Slices : t \in Nat /\ t % BUCKETS \in Slots
        BY SlotOfSlice
    <2>4. RingInv
        BY <2>1, <2>3 DEF RatioInit, RingInv, Empty
    <2>5. QED
        BY <2>2, <2>4
<1>2. ASSUME RatioTypeOK, RingInv, [RatioNext]_ratioVars
      PROVE  RatioTypeOK' /\ RingInv'
    <2>1. CASE UNCHANGED ratioVars
        BY <1>2, <2>1 DEF ratioVars, RatioTypeOK, RingInv
    <2>2. CASE RatioNext
        <3>1. PICK count \in Counts, now \in Ticks :
                  RecordExpected(count, now) \/ RecordObserved(count, now)
            BY <2>2 DEF RatioNext
        <3>2. AbsoluteBucket(now) \in Slices
            BY SliceOfTick
        <3>3. \E n \in Totals : RecordedAs(AbsoluteBucket(now), n)
            <4>1. CASE RecordExpected(count, now)
                BY <1>2, <3>2, <4>1, ExpectedIsRecorded DEF RecordExpected
            <4>2. CASE RecordObserved(count, now)
                BY <1>2, <3>2, <4>2, ObservedIsRecorded DEF RecordObserved
            <4>3. QED
                BY <3>1, <4>1, <4>2
        <3>4. QED
            BY <1>2, <3>2, <3>3, RecordKeepsRing
    <2>3. QED
        BY <1>2, <2>1, <2>2
<1>3. QED
    BY <1>1, <1>2

\* Of two slices that share a slot only the newer can be live.
LEMMA RingImpliesExact == RatioTypeOK /\ RingInv => LiveSlicesExact
<1> SUFFICES ASSUME RatioTypeOK, RingInv, NEW t \in Slices,
                    t <= newest, newest < t + BUCKETS,
                    buckets[t % BUCKETS].stamp # t
             PROVE  noted[t] = Empty
    BY DEF LiveSlicesExact, RingInv
<1> DEFINE s == buckets[t % BUCKETS].stamp
<1>1. t \in Nat /\ t % BUCKETS \in Slots /\ s \in Nat /\ newest \in Nat
    BY SlotOfSlice DEF RatioTypeOK
<1>2. s <= newest
    BY <1>1 DEF RingInv
<1>3. ~(s > t)
    <2>1. SUFFICES ASSUME s > t PROVE FALSE
        OBVIOUS
    <2>2. s % BUCKETS = t % BUCKETS
        BY <1>1, <2>1 DEF RatioTypeOK
    <2>3. s >= t + BUCKETS
        BY <1>1, <2>1, <2>2, SameSlotFarApart
    <2>4. QED
        BY <1>1, <1>2, <2>3, RatioAssumption
<1>4. s < t
    BY <1>1, <1>3
<1>5. QED
    BY <1>4 DEF RingInv

\* Type correctness of the ring; saturating additions keep every count in range.
THEOREM RatioTypeCorrect == RatioSpec => []RatioTypeOK
<1>1. QED
    BY RingInductive, PTL DEF RatioSpec

\* A late or early record never costs evidence inside the window (bucket_at), for
\* any number of buckets and any order of records.
THEOREM LiveSlicesAreExact == RatioSpec => []LiveSlicesExact
<1>1. QED
    BY RingInductive, RingImpliesExact, PTL DEF RatioSpec

-----------------------------------------------------------------------------
(* The exponential average. *)

EmaTypes ==
    /\ emaCount \in Nat /\ emaNum \in Int /\ emaDen \in Nat \ {0}
    /\ seen \subseteq Int /\ total \in Int

\* Before the first sample the average is 0 and there is nothing to weigh it against.
EmaInv == EmaTypes /\ EmaIsMeanThenBounded /\ (emaCount = 0 => emaNum = 0 /\ total = 0)

\* The divisor is the number of samples until that is FACTOR.
LEMMA DivisorFacts ==
    ASSUME NEW c \in Nat
    PROVE  /\ Divisor(c + 1) \in Nat \ {0}
           /\ c + 1 <= Factor => Divisor(c + 1) = c + 1
           /\ c = 0 => Divisor(c + 1) = 1
BY EmaAssumption DEF Divisor

\* A mean and one more sample.
LEMMA MeanStep ==
    ASSUME NEW c \in Int, NEW num \in Int, NEW den \in Int, NEW acc \in Int, NEW v \in Int,
           num * c = acc * den
    PROVE  (num * c + v * den) * (c + 1) = (acc + v) * (den * (c + 1))
<1>1. num * c + v * den = (acc + v) * den
    <2>1. (acc + v) * den = acc * den + v * den
        OBVIOUS
    <2>2. QED
        BY <2>1
<1> DEFINE a == num * c + v * den
           b == acc + v
<1>2. a = b * den /\ a \in Int /\ b \in Int
    BY <1>1
<1> HIDE DEF a, b
<1>3. (b * den) * (c + 1) = b * (den * (c + 1))
    <2> DEFINE e == c + 1
    <2>1. e \in Int
        OBVIOUS
    <2> HIDE DEF e
    <2>2. (b * den) * e = b * (den * e)
        BY <1>2, <2>1
    <2>3. QED
        BY <2>2 DEF e
<1>4. QED
    BY <1>2, <1>3 DEF a, b

\* Scaling an inequality.
LEMMA ScaleLeq ==
    ASSUME NEW x \in Int, NEW y \in Int, NEW k \in Nat, x <= y
    PROVE  x * k <= y * k
OBVIOUS

\* A sample m below the average, or the new sample v, is below the new average,
LEMMA LowerStep ==
    ASSUME NEW num \in Int, NEW den \in Nat, NEW d \in Nat \ {0}, NEW m \in Int, NEW v \in Int,
           m * den <= num
    PROVE  \E w \in {m, v} : w * (den * d) <= num * (d - 1) + v * den
<1>0. d - 1 \in Nat /\ m * den \in Int /\ v * den \in Int
    OBVIOUS
<1>1. \A w \in Int : w * (den * d) = (w * den) * (d - 1) + w * den
    OBVIOUS
<1>2. (m * den) * (d - 1) <= num * (d - 1)
    BY <1>0, ScaleLeq
<1>3. CASE m <= v
    <2>1. m * den <= v * den
        BY <1>3, ScaleLeq
    <2>2. m * (den * d) = (m * den) * (d - 1) + m * den
        BY <1>1
    <2>3. m * (den * d) <= num * (d - 1) + v * den
        <3> DEFINE p == (m * den) * (d - 1)
                   q == num * (d - 1)
                   r == m * den
                   s == v * den
        <3>1. p \in Int /\ q \in Int /\ r \in Int /\ s \in Int /\ p <= q /\ r <= s
            BY <1>0, <1>2, <2>1
        <3> HIDE DEF p, q, r, s
        <3>2. p + r <= q + s
            BY <3>1
        <3>3. QED
            BY <2>2, <3>2 DEF p, q, r, s
    <2>4. QED
        BY <2>3
<1>4. CASE v < m
    <2>1. v * den <= m * den
        BY <1>4, ScaleLeq
    <2>2. (v * den) * (d - 1) <= (m * den) * (d - 1)
        BY <1>0, <2>1, ScaleLeq
    <2>3. v * (den * d) = (v * den) * (d - 1) + v * den
        BY <1>1
    <2>4. v * (den * d) <= num * (d - 1) + v * den
        <3> DEFINE p == (v * den) * (d - 1)
                   o == (m * den) * (d - 1)
                   q == num * (d - 1)
                   s == v * den
        <3>1. p \in Int /\ o \in Int /\ q \in Int /\ s \in Int /\ p <= o /\ o <= q
            BY <1>0, <1>2, <2>2
        <3> HIDE DEF p, o, q, s
        <3>2. p + s <= q + s
            BY <3>1
        <3>3. QED
            BY <2>3, <3>2 DEF p, q, s
    <2>5. QED
        BY <2>4
<1>5. QED
    BY <1>3, <1>4

\* and the same from above, by symmetry.
LEMMA UpperStep ==
    ASSUME NEW num \in Int, NEW den \in Nat, NEW d \in Nat \ {0}, NEW m \in Int, NEW v \in Int,
           m * den >= num
    PROVE  \E w \in {m, v} : w * (den * d) >= num * (d - 1) + v * den
<1> DEFINE n1 == -num
           m1 == -m
           v1 == -v
<1>1. n1 \in Int /\ m1 \in Int /\ v1 \in Int /\ m1 * den <= n1
    <2>1. m1 * den = -(m * den)
        OBVIOUS
    <2>2. QED
        BY <2>1
<1> HIDE DEF n1, m1, v1
<1>2. \E w \in {m1, v1} : w * (den * d) <= n1 * (d - 1) + v1 * den
    BY <1>1, LowerStep
<1>3. n1 * (d - 1) + v1 * den = -(num * (d - 1) + v * den)
    BY DEF n1, v1
<1>4. m1 * (den * d) = -(m * (den * d)) /\ v1 * (den * d) = -(v * (den * d))
    BY DEF m1, v1
<1>5. QED
    BY <1>2, <1>3, <1>4

\* One update.
LEMMA EmaStep ==
    ASSUME EmaInv, NEW v \in EmaSamples, Update(v)
    PROVE  EmaInv'
<1> DEFINE d == Divisor(emaCount + 1)
<1>0. v \in Int /\ emaCount \in Nat /\ emaNum \in Int /\ emaDen \in Nat \ {0} /\ total \in Int /\ seen \subseteq Int
    BY EmaAssumption DEF EmaInv, EmaTypes
<1>1. /\ emaCount' = emaCount + 1 /\ emaNum' = emaNum * (d - 1) + v * emaDen
      /\ emaDen' = emaDen * d /\ seen' = seen \cup {v} /\ total' = total + v
    BY DEF Update
<1>2. /\ d \in Nat \ {0} /\ (emaCount + 1 <= Factor => d = emaCount + 1)
      /\ (emaCount = 0 => d = 1)
    BY <1>0, DivisorFacts
<1> HIDE DEF d
<1>3. EmaTypes'
    <2>1. emaDen * d \in Nat \ {0}
        BY <1>0, <1>2
    <2>2. emaNum * (d - 1) + v * emaDen \in Int
        BY <1>0, <1>2
    <2>3. QED
        BY <1>0, <1>1, <2>1, <2>2 DEF EmaTypes
<1>4. ASSUME emaCount' \in 1 .. Factor
      PROVE  emaNum' * emaCount' = total' * emaDen'
    <2>1. d = emaCount + 1 /\ d - 1 = emaCount
        BY <1>0, <1>1, <1>2, <1>4, EmaAssumption
    <2>2. emaNum * emaCount = total * emaDen
        <3>1. CASE emaCount = 0
            <4>1. emaNum = 0 /\ total = 0
                BY <3>1 DEF EmaInv
            <4>2. QED
                BY <1>0, <3>1, <4>1
        <3>2. CASE emaCount # 0
            <4>1. emaCount \in 1 .. Factor
                BY <1>0, <1>1, <1>4, <3>2, EmaAssumption
            <4>2. QED
                BY <4>1 DEF EmaInv, EmaIsMeanThenBounded
        <3>3. QED
            BY <3>1, <3>2
    <2>3. (emaNum * emaCount + v * emaDen) * (emaCount + 1) = (total + v) * (emaDen * (emaCount + 1))
        BY <1>0, <2>2, MeanStep
    <2>4. QED
        BY <1>1, <2>1, <2>3
<1>5. \E w \in seen' : w * emaDen' <= emaNum'
    <2>1. CASE emaCount = 0
        <3>1. d = 1 /\ v * (emaDen * 1) <= emaNum * (1 - 1) + v * emaDen
            BY <1>0, <1>2, <2>1
        <3>2. QED
            BY <1>1, <3>1
    <2>2. CASE emaCount # 0
        <3>1. PICK m \in seen : m * emaDen <= emaNum
            BY <1>0, <2>2 DEF EmaInv, EmaIsMeanThenBounded
        <3>2. \E w \in {m, v} : w * (emaDen * d) <= emaNum * (d - 1) + v * emaDen
            BY <1>0, <1>2, <3>1, LowerStep
        <3>3. QED
            BY <1>1, <3>2
    <2>3. QED
        BY <2>1, <2>2
<1>6. \E w \in seen' : w * emaDen' >= emaNum'
    <2>1. CASE emaCount = 0
        <3>1. d = 1 /\ v * (emaDen * 1) >= emaNum * (1 - 1) + v * emaDen
            BY <1>0, <1>2, <2>1
        <3>2. QED
            BY <1>1, <3>1
    <2>2. CASE emaCount # 0
        <3>1. PICK m \in seen : m * emaDen >= emaNum
            BY <1>0, <2>2 DEF EmaInv, EmaIsMeanThenBounded
        <3>2. \E w \in {m, v} : w * (emaDen * d) >= emaNum * (d - 1) + v * emaDen
            BY <1>0, <1>2, <3>1, UpperStep
        <3>3. QED
            BY <1>1, <3>2
    <2>3. QED
        BY <2>1, <2>2
<1>7. EmaIsMeanThenBounded'
    BY <1>4, <1>5, <1>6 DEF EmaIsMeanThenBounded
<1>8. emaCount' # 0
    BY <1>0, <1>1
<1>9. QED
    BY <1>3, <1>7, <1>8 DEF EmaInv

\* For every FACTOR and all integer samples, the exponential average starts as the plain mean and
\* then stays between the least and the greatest sample.
THEOREM EmaStaysWithinSamples == EmaSpec => []EmaIsMeanThenBounded
<1>1. EmaInit => EmaInv
    BY EmaAssumption DEF EmaInit, EmaInv, EmaTypes, EmaIsMeanThenBounded
<1>2. EmaInv /\ [EmaNext]_emaVars => EmaInv'
    <2>1. EmaInv /\ UNCHANGED emaVars => EmaInv'
        BY DEF EmaInv, EmaTypes, EmaIsMeanThenBounded, emaVars
    <2>2. QED
        BY <2>1, EmaStep DEF EmaNext
<1>3. EmaInv => EmaIsMeanThenBounded
    BY DEF EmaInv
<1>4. QED
    BY <1>1, <1>2, <1>3, PTL DEF EmaSpec
-----------------------------------------------------------------------------
(* Saturating totals. *)

Counted == 0..MaxCount

\* A saturating addition of counts is one, 0 is neutral, and the order is of no account.
LEMMA SaturatingAddLaws ==
    ASSUME NEW x \in Counted, NEW y \in Counted, NEW z \in Counted
    PROVE  /\ SaturatingAdd(x, y) \in Counted
           /\ SaturatingAdd(x, 0) = x
           /\ SaturatingAdd(SaturatingAdd(x, y), z) = SaturatingAdd(SaturatingAdd(x, z), y)
BY RatioAssumption DEF SaturatingAdd, Counted

\* The intermediate totals of SaturatedTotal.
IsTotal(g, count, S, n) ==
    /\ g \in [0..n -> Counted]
    /\ g[0] = 0
    /\ \A k \in Nat : k < n =>
           g[k + 1] = IF k \in S THEN SaturatingAdd(g[k], count[k]) ELSE g[k]

\* SaturatedTotal is the last of the totals its recursion goes through.
LEMMA TotalExists ==
    ASSUME NEW n \in Nat, NEW S, NEW count \in [0 .. n - 1 -> Counted]
    PROVE  \E g : IsTotal(g, count, S, n) /\ SaturatedTotal(count, S, n) = g[n]
<1> DEFINE step == [k \in 1..n |-> [x \in Counted |->
                       IF k - 1 \in S THEN SaturatingAdd(x, count[k - 1]) ELSE x]]
           Body(g, k) == IF k = 0 THEN 0
                         ELSE IF k - 1 \in S THEN SaturatingAdd(g[k - 1], count[k - 1])
                         ELSE g[k - 1]
<1>1. 0 \in Counted
    BY RatioAssumption DEF Counted
<1>2. ASSUME NEW k \in 1..n, NEW x \in Counted
      PROVE  (IF k - 1 \in S THEN SaturatingAdd(x, count[k - 1]) ELSE x) \in Counted
    <2>1. count[k - 1] \in Counted
        OBVIOUS
    <2>2. QED
        BY <2>1, SaturatingAddLaws
<1>3. step \in [1..n -> [Counted -> Counted]]
    BY <1>2
<1>4. PICK g : Recursion(Counted, 0, step, n, g)
    <2> HIDE DEF step
    <2>1. QED
        BY <1>1, <1>3, RecursionExists, Zenon
<1>5. ASSUME NEW k \in 0..n
      PROVE  g[k] = Body(g, k)
    <2>1. CASE k = 0
        BY <1>4, <2>1 DEF Recursion
    <2>2. CASE k # 0
        <3>1. k - 1 \in Nat /\ k - 1 < n /\ (k - 1) + 1 = k /\ k \in 1..n /\ k - 1 \in 0..n
            BY <2>2
        <3>2. g[k] = step[k][g[k - 1]] /\ g[k - 1] \in Counted
            <4> HIDE DEF step
            <4>1. QED
                BY <1>4, <3>1 DEF Recursion
        <3>3. QED
            BY <2>2, <3>1, <3>2
    <2>3. QED
        BY <2>1, <2>2
<1>6. g = [k \in 0..n |-> Body(g, k)]
    <2>1. g \in [0..n -> Counted]
        BY <1>4, Zenon DEF Recursion
    <2>2. QED
        BY <1>5, <2>1
<1>7. \E f : f = [k \in 0..n |-> Body(f, k)]
    BY <1>6
<1>8. PICK f : f = [k \in 0..n |-> Body(f, k)] /\ SaturatedTotal(count, S, n) = f[n]
    BY <1>7 DEF SaturatedTotal
<1>9. \A k \in 0..n : f[k] = Body(f, k)
    BY <1>8
<1>10. ASSUME NEW k \in Nat, k < n
       PROVE  f[k + 1] = IF k \in S THEN SaturatingAdd(f[k], count[k]) ELSE f[k]
    <2>1. k + 1 \in 0..n /\ k + 1 # 0 /\ (k + 1) - 1 = k
        BY <1>10
    <2>2. QED
        BY <1>9, <2>1
<1>11. f[0] = 0
    BY <1>9
<1> DEFINE T == {k \in Nat : k <= n => f[k] \in Counted}
<1>12. T = Nat
    <2>1. 0 \in T
        BY <1>1, <1>11
    <2>2. ASSUME NEW k \in T
          PROVE  k + 1 \in T
        <3> SUFFICES ASSUME k + 1 <= n
                     PROVE  f[k + 1] \in Counted
            OBVIOUS
        <3>1. k \in Nat /\ k < n /\ f[k] \in Counted /\ count[k] \in Counted
            OBVIOUS
        <3>2. QED
            BY <1>10, <3>1, SaturatingAddLaws
    <2> HIDE DEF T
    <2>3. T \subseteq Nat
        BY DEF T
    <2>4. QED
        BY <2>1, <2>2, <2>3, SetInduction
<1>13. f \in [0..n -> Counted]
    <2>1. \A k \in 0..n : f[k] \in Counted
        BY <1>12
    <2>2. QED
        BY <1>8, <2>1
<1>14. IsTotal(f, count, S, n)
    BY <1>10, <1>11, <1>13 DEF IsTotal
<1>15. QED
    BY <1>8, <1>14

\* Nothing adds up to nothing.
LEMMA TotalOfNone ==
    ASSUME NEW n \in Nat, NEW S, NEW count \in [0 .. n - 1 -> Counted],
           \A k \in 0 .. n - 1 : k \notin S
    PROVE  SaturatedTotal(count, S, n) = 0
<1>1. PICK g : IsTotal(g, count, S, n) /\ SaturatedTotal(count, S, n) = g[n]
    BY TotalExists
<1> DEFINE T == {k \in Nat : k <= n => g[k] = 0}
<1>2. 0 \in T
    BY <1>1 DEF IsTotal
<1>3. ASSUME NEW k \in T
      PROVE  k + 1 \in T
    BY <1>1 DEF IsTotal
<1> HIDE DEF T
<1>4. T = Nat
    <2>1. T \subseteq Nat
        BY DEF T
    <2>2. QED
        BY <1>2, <1>3, <2>1, SetInduction
<1>5. QED
    BY <1>1, <1>4 DEF T

\* Only the places with a count matter,
LEMMA TotalIgnoresZeros ==
    ASSUME NEW n \in Nat, NEW S, NEW R, NEW count \in [0 .. n - 1 -> Counted],
           \A k \in 0 .. n - 1 : (k \in S <=> k \in R) \/ count[k] = 0
    PROVE  SaturatedTotal(count, S, n) = SaturatedTotal(count, R, n)
<1>1. PICK g : IsTotal(g, count, S, n) /\ SaturatedTotal(count, S, n) = g[n]
    BY TotalExists
<1>2. PICK h : IsTotal(h, count, R, n) /\ SaturatedTotal(count, R, n) = h[n]
    BY TotalExists
<1> DEFINE T == {k \in Nat : k <= n => g[k] = h[k]}
<1>3. 0 \in T
    BY <1>1, <1>2 DEF IsTotal
<1>4. ASSUME NEW k \in T
      PROVE  k + 1 \in T
    <2> SUFFICES ASSUME k + 1 <= n
                 PROVE  g[k + 1] = h[k + 1]
        OBVIOUS
    <2>1. k \in Nat /\ k < n /\ k \in 0 .. n - 1 /\ k \in 0..n /\ g[k] = h[k]
        OBVIOUS
    <2>2. g[k] \in Counted /\ SaturatingAdd(g[k], 0) = g[k]
        BY <1>1, <2>1, SaturatingAddLaws DEF IsTotal
    <2>3. /\ g[k + 1] = IF k \in S THEN SaturatingAdd(g[k], count[k]) ELSE g[k]
          /\ h[k + 1] = IF k \in R THEN SaturatingAdd(h[k], count[k]) ELSE h[k]
        BY <1>1, <1>2, <2>1 DEF IsTotal
    <2>4. QED
        BY <2>1, <2>2, <2>3
<1> HIDE DEF T
<1>5. T = Nat
    <2>1. T \subseteq Nat
        BY DEF T
    <2>2. QED
        BY <1>3, <1>4, <2>1, SetInduction
<1>6. QED
    BY <1>1, <1>2, <1>5 DEF T

\* and one place more adds its count, wherever it is.
LEMMA TotalInsert ==
    ASSUME NEW n \in Nat, NEW S, NEW R, NEW j \in 0 .. n - 1, j \notin S, R = S \cup {j},
           NEW count \in [0 .. n - 1 -> Counted]
    PROVE  SaturatedTotal(count, R, n) = SaturatingAdd(SaturatedTotal(count, S, n), count[j])
<1>1. PICK g : IsTotal(g, count, S, n) /\ SaturatedTotal(count, S, n) = g[n]
    BY TotalExists
<1>2. PICK h : IsTotal(h, count, R, n) /\ SaturatedTotal(count, R, n) = h[n]
    BY TotalExists
<1> DEFINE T == {k \in Nat : k <= n => h[k] = IF k <= j THEN g[k] ELSE SaturatingAdd(g[k], count[j])}
<1>3. 0 \in T
    BY <1>1, <1>2 DEF IsTotal
<1>4. ASSUME NEW k \in T
      PROVE  k + 1 \in T
    <2> SUFFICES ASSUME k + 1 <= n
                 PROVE  h[k + 1] = IF k + 1 <= j THEN g[k + 1] ELSE SaturatingAdd(g[k + 1], count[j])
        OBVIOUS
    <2>1. /\ k \in Nat /\ k < n /\ k \in 0 .. n - 1 /\ k \in 0..n
          /\ h[k] = IF k <= j THEN g[k] ELSE SaturatingAdd(g[k], count[j])
        OBVIOUS
    <2>2. g[k] \in Counted /\ count[k] \in Counted /\ count[j] \in Counted
        BY <1>1, <2>1 DEF IsTotal
    <2>3. /\ g[k + 1] = IF k \in S THEN SaturatingAdd(g[k], count[k]) ELSE g[k]
          /\ h[k + 1] = IF k \in R THEN SaturatingAdd(h[k], count[k]) ELSE h[k]
        BY <1>1, <1>2, <2>1 DEF IsTotal
    <2> HIDE DEF T
    <2>4. CASE k < j
        BY <2>1, <2>3, <2>4
    <2>5. CASE k = j
        BY <2>1, <2>3, <2>5
    <2>6. CASE k > j
        <3>1. SaturatingAdd(SaturatingAdd(g[k], count[k]), count[j])
                = SaturatingAdd(SaturatingAdd(g[k], count[j]), count[k])
            BY <2>2, SaturatingAddLaws
        <3>2. h[k] = SaturatingAdd(g[k], count[j]) /\ ~(k + 1 <= j)
            BY <2>1, <2>6
        <3>3. k \in R <=> k \in S
            BY <2>6
        <3>4. QED
            BY <2>3, <3>1, <3>2, <3>3
    <2>7. QED
        BY <2>1, <2>4, <2>5, <2>6
<1> HIDE DEF T
<1>5. T = Nat
    <2>1. T \subseteq Nat
        BY DEF T
    <2>2. QED
        BY <1>3, <1>4, <2>1, SetInduction
<1>6. h[n] = SaturatingAdd(g[n], count[j])
    <2>1. n <= n /\ ~(n <= j) /\ n \in T
        BY <1>5
    <2>2. QED
        BY <2>1 DEF T
<1>7. QED
    BY <1>1, <1>2, <1>6
-----------------------------------------------------------------------------
(* Reading the ring. *)

\* There are finitely many slices.
LEMMA SliceCountType == SliceCount \in Nat
BY RatioAssumption, Division DEF SliceCount

\* The slots that hold a slice from a to b.
Holding(a, b) == {i \in Slots : buckets[i].stamp \in a..b}

\* Over the slices a..b of one window, the slots add up to what the slices do, when the
\* slot of a slice counts as much as the slice, a slice that is not in its slot and a slot
\* that was never claimed nothing.
LEMMA SlotsAddUpToSlices ==
    ASSUME RatioTypeOK, NEW a \in Nat, NEW b \in Slices, a <= b,
           NEW inSlot \in [Slots -> Counted], NEW inSlice \in [Slices -> Counted],
           \A t \in Slices : buckets[t % BUCKETS].stamp = t => inSlot[t % BUCKETS] = inSlice[t],
           \A t \in Slices : a <= t /\ t <= b /\ buckets[t % BUCKETS].stamp # t => inSlice[t] = 0,
           \A i \in Slots : i # 0 /\ buckets[i].stamp = 0 => inSlot[i] = 0
    PROVE  SaturatedTotal(inSlot, Holding(a, b), BUCKETS) = SaturatedTotal(inSlice, a..b, SliceCount)
<1> DEFINE Slot(m) == SaturatedTotal(inSlot, Holding(a, a + m - 1), BUCKETS)
           Slice(m) == SaturatedTotal(inSlice, a .. a + m - 1, SliceCount)
           T == {m \in Nat : a + m <= b + 1 => Slot(m) = Slice(m)}
<1>0. /\ b \in Nat /\ BUCKETS \in Nat \ {0} /\ SliceCount \in Nat
      /\ Slots = 0 .. BUCKETS - 1 /\ Slices = 0 .. SliceCount - 1
      /\ \A t \in Slices : t \in Nat /\ t % BUCKETS \in Slots
      /\ \A i \in Slots : buckets[i].stamp \in Nat
      /\ \A i \in Slots : buckets[i].stamp # 0 => buckets[i].stamp % BUCKETS = i
      /\ 0 % BUCKETS = 0
    <2>1. SliceCount \in Nat
        BY SliceCountType
    <2>2. \A t \in Slices : t \in Nat /\ t % BUCKETS \in Slots
        BY SlotOfSlice
    <2>3. /\ \A i \in Slots : buckets[i].stamp \in Nat
          /\ \A i \in Slots : buckets[i].stamp # 0 => buckets[i].stamp % BUCKETS = i
        BY DEF RatioTypeOK
    <2>4. BUCKETS \in Nat \ {0} /\ 0 % BUCKETS = 0
        BY RatioAssumption
    <2>5. QED
        BY <2>1, <2>2, <2>3, <2>4, Zenon DEF Slots, Slices
<1>1. 0 \in T
    <2>1. a .. a + 0 - 1 = {}
        OBVIOUS
    <2>2. Slot(0) = 0
        <3>1. \A k \in 0 .. BUCKETS - 1 : k \notin Holding(a, a + 0 - 1)
            BY <2>1 DEF Holding
        <3>2. QED
            BY <1>0, <3>1, TotalOfNone
    <2>3. Slice(0) = 0
        BY <1>0, <2>1, TotalOfNone
    <2>4. QED
        BY <2>2, <2>3
<1>2. ASSUME NEW m \in T
      PROVE  m + 1 \in T
    <2> SUFFICES ASSUME a + (m + 1) <= b + 1
                 PROVE  Slot(m + 1) = Slice(m + 1)
        OBVIOUS
    <2> DEFINE t == a + m
               j == t % BUCKETS
               L == Holding(a, t - 1)
               M == Holding(a, t)
    <2>1. /\ m \in Nat /\ t \in Slices /\ t \in Nat /\ a <= t /\ t <= b
          /\ a + (m + 1) - 1 = t /\ j \in Slots
        BY <1>0
    <2>2. Slot(m) = Slice(m)
        BY <1>0
    <2> HIDE DEF t, T
    <2>3. Slice(m + 1) = SaturatingAdd(Slice(m), inSlice[t])
        <3>1. a .. t = (a .. t - 1) \cup {t} /\ t \notin a .. t - 1
            BY <2>1
        <3>2. t \in 0 .. SliceCount - 1 /\ inSlice \in [0 .. SliceCount - 1 -> Counted]
            BY <1>0, <2>1
        <3>3. SaturatedTotal(inSlice, a .. t, SliceCount)
                = SaturatingAdd(SaturatedTotal(inSlice, a .. t - 1, SliceCount), inSlice[t])
            <4> DEFINE R == a .. t
                       S == a .. t - 1
            <4>1. SliceCount \in Nat /\ t \notin S /\ R = S \cup {t}
                BY <1>0, <3>1
            <4> HIDE DEF R, S
            <4>2. SaturatedTotal(inSlice, R, SliceCount)
                    = SaturatingAdd(SaturatedTotal(inSlice, S, SliceCount), inSlice[t])
                BY <3>2, <4>1, TotalInsert
            <4>3. QED
                BY <4>2 DEF R, S
        <3>4. QED
            BY <2>1, <3>3 DEF t
    <2>4. ASSUME NEW i \in M, i \notin L, i # j \/ buckets[j].stamp # t
          PROVE  inSlot[i] = 0
        <3>1. i \in Slots /\ buckets[i].stamp = t
            <4>1. i \in Slots /\ buckets[i].stamp \in a..t /\ buckets[i].stamp \notin a .. t - 1
                BY <2>4, Zenon DEF Holding
            <4>2. buckets[i].stamp \in Nat
                BY <1>0, <4>1
            <4>3. QED
                BY <2>1, <4>1, <4>2
        <3>2. t = 0
            BY <1>0, <2>4, <3>1
        <3>3. j = 0
            BY <1>0, <3>2
        <3>4. i # 0
            BY <2>4, <3>1, <3>3
        <3>5. QED
            BY <3>1, <3>2, <3>4
    <2>5. L \subseteq M /\ M \subseteq Slots
        BY <1>0, <2>1 DEF Holding
    <2>6. inSlot \in [0 .. BUCKETS - 1 -> Counted]
        BY <1>0
    <2>7. Slot(m) = SaturatedTotal(inSlot, L, BUCKETS) /\ Slot(m + 1) = SaturatedTotal(inSlot, M, BUCKETS)
        BY <2>1 DEF t
    <2>8. CASE buckets[j].stamp = t
        <3>1. j \in M /\ j \notin L
            <4>1. t \in a..t /\ t \notin a .. t - 1
                BY <2>1
            <4>2. QED
                BY <2>1, <2>8, <4>1, Zenon DEF Holding
        <3>2. \A k \in 0 .. BUCKETS - 1 : (k \in M <=> k \in L \cup {j}) \/ inSlot[k] = 0
            <4> HIDE DEF j, L, M
            <4>1. QED
                BY <2>4, <2>5, <3>1
        <3>3. j \in 0 .. BUCKETS - 1 /\ inSlot[j] = inSlice[t]
            BY <1>0, <2>1, <2>8
        <3> HIDE DEF j, L, M
        <3>4. SaturatedTotal(inSlot, M, BUCKETS) = SaturatedTotal(inSlot, L \cup {j}, BUCKETS)
            BY <1>0, <2>6, <3>2, TotalIgnoresZeros
        <3>5. SaturatedTotal(inSlot, L \cup {j}, BUCKETS) = SaturatingAdd(SaturatedTotal(inSlot, L, BUCKETS), inSlot[j])
            <4> DEFINE R == L \cup {j}
            <4>1. R = L \cup {j} /\ BUCKETS \in Nat
                BY <1>0
            <4> HIDE DEF R
            <4>2. SaturatedTotal(inSlot, R, BUCKETS) = SaturatingAdd(SaturatedTotal(inSlot, L, BUCKETS), inSlot[j])
                BY <2>6, <3>1, <3>3, <4>1, TotalInsert
            <4>3. QED
                BY <4>2 DEF R
        <3>6. QED
            BY <2>2, <2>3, <2>7, <3>3, <3>4, <3>5, Zenon
    <2>9. CASE buckets[j].stamp # t
        <3>1. \A k \in 0 .. BUCKETS - 1 : (k \in M <=> k \in L) \/ inSlot[k] = 0
            <4> HIDE DEF j, L, M
            <4>1. QED
                BY <2>4, <2>5, <2>9
        <3>2. inSlice[t] = 0
            BY <2>1, <2>9
        <3>3. Slice(m) \in Counted
            <4> DEFINE S == a .. a + m - 1
            <4>1. inSlice \in [0 .. SliceCount - 1 -> Counted] /\ SliceCount \in Nat
                BY <1>0
            <4> HIDE DEF S
            <4>2. PICK g : IsTotal(g, inSlice, S, SliceCount) /\ SaturatedTotal(inSlice, S, SliceCount) = g[SliceCount]
                BY <4>1, TotalExists
            <4>3. g[SliceCount] \in Counted
                BY <1>0, <4>2 DEF IsTotal
            <4>4. QED
                BY <4>2, <4>3 DEF S
        <3>4. SaturatingAdd(Slice(m), 0) = Slice(m)
            BY <3>3, SaturatingAddLaws
        <3> HIDE DEF j, L, M
        <3>5. SaturatedTotal(inSlot, M, BUCKETS) = SaturatedTotal(inSlot, L, BUCKETS)
            BY <1>0, <2>6, <3>1, TotalIgnoresZeros
        <3>6. QED
            BY <2>2, <2>3, <2>7, <3>2, <3>4, <3>5, Zenon
    <2>10. QED
        BY <2>8, <2>9
<1>3. T = Nat
    <2> HIDE DEF T
    <2>1. T \subseteq Nat
        BY DEF T
    <2>2. QED
        BY <1>1, <1>2, <2>1, SetInduction
<1>4. b + 1 - a \in Nat /\ a + (b + 1 - a) <= b + 1 /\ a + (b + 1 - a) - 1 = b
    BY <1>0
<1>5. Slot(b + 1 - a) = Slice(b + 1 - a)
    BY <1>3, <1>4
<1>6. QED
    BY <1>4, <1>5

\* A window at a time no record is later than lies within the horizon and is no wider
\* than the ring.
LEMMA WindowBounds ==
    ASSUME RatioTypeOK, NEW slices \in Int, NEW now \in Ticks, AbsoluteBucket(now) >= newest
    PROVE  /\ OldestBucket(slices, now) \in Nat
           /\ OldestBucket(slices, now) <= AbsoluteBucket(now)
           /\ \A t \in Slices : OldestBucket(slices, now) <= t => newest < t + BUCKETS
<1>1. AbsoluteBucket(now) \in Nat
    BY SliceOfTick, SlotOfSlice
<1>2. newest \in Nat /\ \A t \in Slices : t \in Nat
    BY SlotOfSlice DEF RatioTypeOK
<1>3. BUCKETS \in Nat \ {0}
    BY RatioAssumption
<1>4. Clamp(slices) \in 1 .. BUCKETS
    BY <1>3 DEF Clamp
<1> DEFINE c == AbsoluteBucket(now)
           k == Clamp(slices)
<1>5. OldestBucket(slices, now) = IF c - (k - 1) < 0 THEN 0 ELSE c - (k - 1)
    BY DEF OldestBucket
<1> HIDE DEF c, k
<1>6. QED
    BY <1>1, <1>2, <1>3, <1>4, <1>5 DEF c, k

\* The window is the current slice and as many before it as asked for, short of the epoch.
LEMMA WindowIsLastSlices ==
    ASSUME NEW asked \in Int, NEW n \in 1 .. BUCKETS, NEW now \in Ticks, StandsFor(asked, n)
    PROVE  Window(asked, now) = LastSlices(n, now)
<1> DEFINE c == AbsoluteBucket(now)
<1>1. c \in Slices /\ BUCKETS \in Nat \ {0} /\ SliceCount \in Nat
    BY SliceOfTick, RatioAssumption, SliceCountType
<1>2. Clamp(asked) = n /\ n \in Nat \ {0}
    BY <1>1 DEF Clamp, StandsFor
<1>3. Window(asked, now) = (IF c - (n - 1) < 0 THEN 0 ELSE c - (n - 1)) .. c
    BY <1>2 DEF Window, OldestBucket
<1>4. LastSlices(n, now) = {t \in Slices : t <= c /\ c < t + n}
    BY DEF LastSlices
<1> HIDE DEF c
<1>5. QED
    BY <1>1, <1>2, <1>3, <1>4 DEF Slices

\* Whatever the ring invariant says of a slice, the reads see.
LEMMA RingReadsExactly == RatioTypeOK /\ RingInv => ReadsAreExact
<1> SUFFICES ASSUME RatioTypeOK, RingInv, NEW slices \in 0 .. BUCKETS + 1, NEW n \in 1 .. BUCKETS,
                    NEW now \in Ticks, AbsoluteBucket(now) >= newest, StandsFor(slices, n)
             PROVE  LET W == LastSlices(n, now)
                        e == SaturatedTotal([t \in Slices |-> noted[t].expected], W, SliceCount)
                        o == SaturatedTotal([t \in Slices |-> noted[t].observed], W, SliceCount)
                    IN  RecentValue(slices, now) = Quotient(o, e)
    BY DEF ReadsAreExact
<1> DEFINE a == OldestBucket(slices, now)
           b == AbsoluteBucket(now)
           slotE == [i \in Slots |-> buckets[i].expected]
           slotO == [i \in Slots |-> buckets[i].observed]
           sliceE == [t \in Slices |-> noted[t].expected]
           sliceO == [t \in Slices |-> noted[t].observed]
<1>1. slices \in Int /\ b \in Slices
    BY RatioAssumption, SliceOfTick
<1>2. a \in Nat /\ a <= b /\ \A t \in Slices : a <= t => newest < t + BUCKETS
    BY <1>1, WindowBounds
<1>3. /\ slotE \in [Slots -> Counted] /\ slotO \in [Slots -> Counted]
      /\ sliceE \in [Slices -> Counted] /\ sliceO \in [Slices -> Counted]
    BY DEF RatioTypeOK, Counted
<1>4. \A t \in Slices : t % BUCKETS \in Slots /\ t \in Nat
    BY SlotOfSlice
<1>5. \A t \in Slices : buckets[t % BUCKETS].stamp = t =>
          slotE[t % BUCKETS] = sliceE[t] /\ slotO[t % BUCKETS] = sliceO[t]
    BY <1>4 DEF RingInv
<1>6. ASSUME NEW t \in Slices, a <= t, buckets[t % BUCKETS].stamp # t
      PROVE  sliceE[t] = 0 /\ sliceO[t] = 0
    <2>1. newest < t + BUCKETS /\ newest \in Nat
        BY <1>2, <1>6, SlotOfSlice DEF RatioTypeOK
    <2>2. noted[t] = Empty
        <3>1. CASE t <= newest
            BY <1>6, <2>1, <3>1, RingImpliesExact DEF LiveSlicesExact
        <3>2. CASE ~(t <= newest)
            <4>1. buckets[t % BUCKETS].stamp \in Nat /\ buckets[t % BUCKETS].stamp <= newest
                BY <1>4 DEF RatioTypeOK, RingInv
            <4>2. buckets[t % BUCKETS].stamp < t
                BY <1>4, <2>1, <3>2, <4>1
            <4>3. QED
                BY <4>2 DEF RingInv
        <3>3. QED
            BY <3>1, <3>2
    <2>3. QED
        BY <2>2 DEF Empty
<1>7. \A i \in Slots : i # 0 /\ buckets[i].stamp = 0 => slotE[i] = 0 /\ slotO[i] = 0
    BY DEF RingInv
<1>8. LastSlices(n, now) = a..b /\ Live(slices, now) = Holding(a, b)
    BY <1>1, WindowIsLastSlices DEF Window, Live, Holding
<1>9. /\ Expected(slices, now) = SaturatedTotal(slotE, Holding(a, b), BUCKETS)
      /\ Observed(slices, now) = SaturatedTotal(slotO, Holding(a, b), BUCKETS)
    BY <1>8, Zenon DEF Expected, Observed
<1> HIDE DEF a, b, slotE, slotO, sliceE, sliceO
<1>10. SaturatedTotal(slotE, Holding(a, b), BUCKETS) = SaturatedTotal(sliceE, a..b, SliceCount)
    BY <1>1, <1>2, <1>3, <1>5, <1>6, <1>7, SlotsAddUpToSlices
<1>11. SaturatedTotal(slotO, Holding(a, b), BUCKETS) = SaturatedTotal(sliceO, a..b, SliceCount)
    BY <1>1, <1>2, <1>3, <1>5, <1>6, <1>7, SlotsAddUpToSlices
<1>12. RecentValue(slices, now)
          = Quotient(SaturatedTotal(sliceO, a..b, SliceCount), SaturatedTotal(sliceE, a..b, SliceCount))
    BY <1>9, <1>10, <1>11, Zenon DEF RecentValue
<1>13. QED
    BY <1>8, <1>12, Zenon DEF sliceE, sliceO

\* value and recent_value at a time not before any record are the ratio over all the
\* records in their slices, however the records came, for any number of buckets, any slice
\* width and across the saturation of the counts.
THEOREM ReadsAreExactAlways == RatioSpec => []ReadsAreExact
<1>1. QED
    BY RingInductive, RingReadsExactly, PTL DEF RatioSpec
-----------------------------------------------------------------------------
(* The moving average. *)

Residues == 0 .. Modulus - 1

\* The sum of two values of the type wraps at most once.
LEMMA WrapOnce ==
    ASSUME NEW x \in Nat, x < 2 * Modulus
    PROVE  /\ Wrap(x) = IF x < Modulus THEN x ELSE x - Modulus
           /\ Wrap(x) \in Residues
<1> DEFINE q == x \div Modulus
           r == x % Modulus
<1>0. Modulus \in Nat \ {0}
    BY AverageAssumption
<1>1. q \in Nat /\ r \in 0 .. Modulus - 1 /\ x = Modulus * q + r
    BY <1>0, Division, Zenon
<1>2. Wrap(x) = r
    BY DEF Wrap
<1> HIDE DEF q, r
<1>3. q = 0 \/ q = 1
    <2>1. SUFFICES ASSUME q >= 2 PROVE FALSE
        BY <1>1
    <2>2. Modulus * q >= Modulus * 2
        BY <1>0, <1>1, <2>1
    <2>3. QED
        BY <1>0, <1>1, <2>2
<1>4. CASE q = 0
    BY <1>0, <1>1, <1>2, <1>4 DEF Residues
<1>5. CASE q = 1
    BY <1>0, <1>1, <1>2, <1>5 DEF Residues
<1>6. QED
    BY <1>3, <1>4, <1>5

\* The same for the sums the averages take.
LEMMA WrapSum ==
    ASSUME NEW x \in Residues, NEW y \in Residues
    PROVE  /\ Wrap(x + y) = IF x + y < Modulus THEN x + y ELSE x + y - Modulus
           /\ Wrap(x + y) \in Residues
           /\ Wrap(x + Modulus - y) = IF x < y THEN x + Modulus - y ELSE x - y
<1>1. Modulus \in Nat \ {0}
    BY AverageAssumption
<1>2. /\ x \in Nat /\ y \in Nat /\ x < Modulus /\ y < Modulus
      /\ x + y \in Nat /\ x + y < 2 * Modulus
      /\ x + Modulus - y \in Nat /\ x + Modulus - y < 2 * Modulus
    BY <1>1 DEF Residues
<1> DEFINE s == x + y
           d == x + Modulus - y
<1>3. s \in Nat /\ s < 2 * Modulus /\ d \in Nat /\ d < 2 * Modulus
    BY <1>2
<1> HIDE DEF s, d
<1>4. /\ Wrap(s) = IF s < Modulus THEN s ELSE s - Modulus
      /\ Wrap(s) \in Residues
      /\ Wrap(d) = IF d < Modulus THEN d ELSE d - Modulus
    BY <1>3, WrapOnce
<1>5. d - Modulus = x - y /\ (d < Modulus <=> x < y)
    BY <1>1, <1>2 DEF d
<1>6. Wrap(d) = IF x < y THEN d ELSE x - y
    <2>1. CASE x < y
        BY <1>4, <1>5, <2>1
    <2>2. CASE ~(x < y)
        BY <1>4, <1>5, <2>2
    <2>3. QED
        BY <2>1, <2>2
<1>7. Wrap(x + y) = (IF x + y < Modulus THEN x + y ELSE x + y - Modulus) /\ Wrap(x + y) \in Residues
    BY <1>1, <1>2, <1>4 DEF s
<1>8. Wrap(x + Modulus - y) = IF x < y THEN x + Modulus - y ELSE x - y
    BY <1>6 DEF d
<1>9. QED
    BY <1>7, <1>8

\* The arithmetic of three values of a type added in two ways.
LEMMA ThreeSummands ==
    ASSUME NEW M \in Nat, NEW x \in Nat, NEW y \in Nat, NEW z \in Nat,
           x < M, y < M, z < M, NEW p, NEW q, NEW e, NEW f,
           p = (IF x + z < M THEN x + z ELSE x + z - M),
           q = (IF z + y < M THEN z + y ELSE z + y - M),
           e = (IF p + y < M THEN p + y ELSE p + y - M),
           f = (IF x + q < M THEN x + q ELSE x + q - M)
    PROVE  e = f
OBVIOUS

\* The sums WindowSum goes through.
IsSum(g, w) ==
    /\ g \in [0 .. Len(w) -> Residues]
    /\ g[0] = 0
    /\ \A k \in Nat : k < Len(w) => g[k + 1] = Wrap(g[k] + w[k + 1])

\* WindowSum is the last of the sums its recursion goes through.
LEMMA SumExists ==
    ASSUME NEW w \in Seq(Residues)
    PROVE  \E g : IsSum(g, w) /\ WindowSum(w) = g[Len(w)]
<1> DEFINE n == Len(w)
           step == [k \in 1..n |-> [x \in Residues |-> Wrap(x + w[k])]]
           Body(g, k) == IF k = 0 THEN 0 ELSE Wrap(g[k - 1] + w[k])
<1>0. n \in Nat /\ \A k \in 1..n : w[k] \in Residues
    OBVIOUS
<1>1. 0 \in Residues
    BY AverageAssumption DEF Residues
<1> HIDE DEF n
<1>2. ASSUME NEW k \in 1..n, NEW x \in Residues
      PROVE  Wrap(x + w[k]) \in Residues
    BY <1>0, WrapSum
<1>3. step \in [1..n -> [Residues -> Residues]]
    BY <1>2
<1>4. PICK g : Recursion(Residues, 0, step, n, g)
    <2> HIDE DEF step
    <2>1. QED
        BY <1>0, <1>1, <1>3, RecursionExists, Zenon
<1>5. ASSUME NEW k \in 0..n
      PROVE  g[k] = Body(g, k)
    <2>1. CASE k = 0
        BY <1>4, <2>1 DEF Recursion
    <2>2. CASE k # 0
        <3>1. k - 1 \in Nat /\ k - 1 < n /\ (k - 1) + 1 = k /\ k \in 1..n /\ k - 1 \in 0..n
            BY <1>0, <2>2
        <3>2. g[k] = step[k][g[k - 1]] /\ g[k - 1] \in Residues
            <4> HIDE DEF step
            <4>1. QED
                BY <1>4, <3>1 DEF Recursion
        <3>3. QED
            BY <2>2, <3>1, <3>2
    <2>3. QED
        BY <2>1, <2>2
<1>6. g = [k \in 0..n |-> Body(g, k)]
    <2>1. g \in [0..n -> Residues]
        BY <1>4, Zenon DEF Recursion
    <2>2. QED
        BY <1>5, <2>1
<1>7. \E f : f = [k \in 0 .. Len(w) |-> Body(f, k)]
    BY <1>6 DEF n
<1>8. PICK f : f = [k \in 0 .. Len(w) |-> Body(f, k)] /\ WindowSum(w) = f[Len(w)]
    BY <1>7 DEF WindowSum
<1>9. \A k \in 0..n : f[k] = Body(f, k)
    BY <1>8 DEF n
<1>10. ASSUME NEW k \in Nat, k < n
       PROVE  f[k + 1] = Wrap(f[k] + w[k + 1])
    <2>1. k + 1 \in 0..n /\ k + 1 # 0 /\ (k + 1) - 1 = k
        BY <1>0, <1>10
    <2>2. QED
        BY <1>9, <2>1
<1>11. f[0] = 0
    BY <1>0, <1>9
<1> DEFINE T == {k \in Nat : k <= n => f[k] \in Residues}
<1>12. T = Nat
    <2>1. 0 \in T
        BY <1>1, <1>11
    <2>2. ASSUME NEW k \in T
          PROVE  k + 1 \in T
        <3> SUFFICES ASSUME k + 1 <= n
                     PROVE  f[k + 1] \in Residues
            OBVIOUS
        <3>1. k \in Nat /\ k < n /\ f[k] \in Residues /\ w[k + 1] \in Residues
            BY <1>0
        <3>2. QED
            BY <1>10, <3>1, WrapSum
    <2> HIDE DEF T
    <2>3. T \subseteq Nat
        BY DEF T
    <2>4. QED
        BY <2>1, <2>2, <2>3, SetInduction
<1>13. f \in [0..n -> Residues]
    <2>1. \A k \in 0..n : f[k] \in Residues
        BY <1>0, <1>12
    <2>2. QED
        BY <1>8, <2>1 DEF n
<1>14. IsSum(f, w)
    BY <1>10, <1>11, <1>13 DEF IsSum, n
<1>15. QED
    BY <1>8, <1>14

\* A sample more at the end is added to the sum,
LEMMA SumOfAppend ==
    ASSUME NEW w \in Seq(Residues), NEW x \in Residues
    PROVE  WindowSum(Append(w, x)) = Wrap(WindowSum(w) + x)
<1> DEFINE v == Append(w, x)
           n == Len(w)
<1>0. /\ v \in Seq(Residues) /\ Len(v) = n + 1 /\ n \in Nat
      /\ v[n + 1] = x /\ \A k \in 1..n : v[k] = w[k]
    OBVIOUS
<1>1. PICK g : IsSum(g, w) /\ WindowSum(w) = g[Len(w)]
    BY SumExists
<1> HIDE DEF v
<1>2. PICK h : IsSum(h, v) /\ WindowSum(v) = h[Len(v)]
    BY <1>0, SumExists
<1> HIDE DEF n
<1> DEFINE T == {k \in Nat : k <= n => h[k] = g[k]}
<1>3. T = Nat
    <2>1. 0 \in T
        BY <1>1, <1>2 DEF IsSum
    <2>2. ASSUME NEW k \in T
          PROVE  k + 1 \in T
        <3> SUFFICES ASSUME k + 1 <= n
                     PROVE  h[k + 1] = g[k + 1]
            OBVIOUS
        <3>1. k \in Nat /\ k < n /\ k < n + 1 /\ k + 1 \in 1..n /\ h[k] = g[k]
            BY <1>0
        <3>2. h[k + 1] = Wrap(h[k] + v[k + 1])
            BY <1>0, <1>2, <3>1 DEF IsSum
        <3>3. g[k + 1] = Wrap(g[k] + w[k + 1])
            BY <1>1, <3>1 DEF IsSum, n
        <3>4. v[k + 1] = w[k + 1]
            BY <1>0, <3>1
        <3>5. QED
            BY <3>1, <3>2, <3>3, <3>4
    <2> HIDE DEF T
    <2>3. T \subseteq Nat
        BY DEF T
    <2>4. QED
        BY <2>1, <2>2, <2>3, SetInduction
<1>4. h[n] = g[n]
    BY <1>0, <1>3
<1>5. h[n + 1] = Wrap(h[n] + x)
    BY <1>0, <1>2 DEF IsSum
<1>6. QED
    BY <1>0, <1>1, <1>2, <1>4, <1>5 DEF v, n

\* and that of the others is what is left of it without the first.
LEMMA SumOfTail ==
    ASSUME NEW w \in Seq(Residues), w # <<>>
    PROVE  WindowSum(w) = Wrap(Head(w) + WindowSum(Tail(w)))
<1> DEFINE v == Tail(w)
           n == Len(v)
           x == Head(w)
<1>0. /\ v \in Seq(Residues) /\ Len(w) = n + 1 /\ n \in Nat /\ x \in Residues
      /\ w[1] = x /\ \A k \in 1..n : v[k] = w[k + 1]
    OBVIOUS
<1>1. PICK g : IsSum(g, w) /\ WindowSum(w) = g[Len(w)]
    BY SumExists
<1> HIDE DEF v, x
<1>2. PICK h : IsSum(h, v) /\ WindowSum(v) = h[n]
    BY <1>0, SumExists
<1>2a. /\ h[0] = 0 /\ g[0] = 0
       /\ \A k \in 0..n : h[k] \in Residues
       /\ \A k \in Nat : k < n => h[k + 1] = Wrap(h[k] + v[k + 1])
       /\ \A k \in Nat : k < n + 1 => g[k + 1] = Wrap(g[k] + w[k + 1])
    BY <1>0, <1>1, <1>2 DEF IsSum
<1> HIDE DEF n
<1> DEFINE T == {k \in Nat : k <= n => g[k + 1] = Wrap(x + h[k])}
<1>3. T = Nat
    <2>1. 0 \in T
        <3>1. g[0 + 1] = Wrap(0 + x)
            BY <1>0, <1>2a
        <3>2. 0 + x = x + 0
            BY <1>0, AverageAssumption DEF Residues
        <3>3. QED
            BY <1>2a, <3>1, <3>2
    <2>2. ASSUME NEW k \in T
          PROVE  k + 1 \in T
        <3> SUFFICES ASSUME k + 1 <= n
                     PROVE  g[(k + 1) + 1] = Wrap(x + h[k + 1])
            OBVIOUS
        <3> DEFINE y == w[(k + 1) + 1]
                   z == h[k]
        <3>1. /\ k \in Nat /\ k < n /\ k + 1 \in Nat /\ k + 1 < n + 1 /\ k + 1 \in 1..n
              /\ g[k + 1] = Wrap(x + z) /\ k \in 0..n
            BY <1>0
        <3>2. z \in Residues /\ y \in Residues /\ y = v[k + 1]
            BY <1>0, <1>2a, <3>1
        <3>3. g[(k + 1) + 1] = Wrap(Wrap(x + z) + y)
            BY <1>2a, <3>1
        <3>4. h[k + 1] = Wrap(z + y)
            BY <1>2a, <3>1, <3>2
        <3> HIDE DEF y, z
        <3>5. Wrap(Wrap(x + z) + y) = Wrap(x + Wrap(z + y))
            <4>1. /\ Wrap(x + z) \in Residues /\ Wrap(z + y) \in Residues
                  /\ Wrap(x + z) = IF x + z < Modulus THEN x + z ELSE x + z - Modulus
                  /\ Wrap(z + y) = IF z + y < Modulus THEN z + y ELSE z + y - Modulus
                BY <1>0, <3>2, WrapSum
            <4> DEFINE p == Wrap(x + z)
                       q == Wrap(z + y)
            <4>2. /\ Wrap(p + y) = IF p + y < Modulus THEN p + y ELSE p + y - Modulus
                  /\ Wrap(x + q) = IF x + q < Modulus THEN x + q ELSE x + q - Modulus
                BY <1>0, <3>2, <4>1, WrapSum
            <4> HIDE DEF p, q
            <4>3. p \in Residues /\ q \in Residues
                BY <4>1 DEF p, q
            <4>4. /\ p = IF x + z < Modulus THEN x + z ELSE x + z - Modulus
                  /\ q = IF z + y < Modulus THEN z + y ELSE z + y - Modulus
                BY <4>1 DEF p, q
            <4>5. Wrap(p + y) = Wrap(x + q)
                <5>1. /\ Modulus \in Nat /\ x \in Nat /\ y \in Nat /\ z \in Nat
                      /\ x < Modulus /\ y < Modulus /\ z < Modulus
                    BY <1>0, <3>2, AverageAssumption DEF Residues
                <5>2. QED
                    BY <4>2, <4>4, <5>1, ThreeSummands
            <4>6. QED
                BY <4>5 DEF p, q
        <3>6. QED
            BY <3>3, <3>4, <3>5
    <2> HIDE DEF T
    <2>3. T \subseteq Nat
        BY DEF T
    <2>4. QED
        BY <2>1, <2>2, <2>3, SetInduction
<1>4. g[n + 1] = Wrap(x + h[n])
    BY <1>0, <1>3
<1>5. QED
    BY <1>0, <1>1, <1>2, <1>4 DEF v, x, n

\* The running sum is at every step the wrapped sum of the window.
AverageInv ==
    /\ window \in Seq(Residues) /\ Len(window) <= WindowSize
    /\ sum \in Residues /\ sum = WindowSum(window)

\* An empty window has the sum 0.
LEMMA SumOfNone == WindowSum(<<>>) = 0 /\ 0 \in Residues
<1>1. <<>> \in Seq(Residues) /\ Len(<<>>) = 0
    OBVIOUS
<1>2. PICK g : IsSum(g, <<>>) /\ WindowSum(<<>>) = g[Len(<<>>)]
    BY <1>1, SumExists
<1>3. QED
    BY <1>1, <1>2, AverageAssumption DEF IsSum, Residues

\* What push does to the sum is what it does to the window.
LEMMA PushKeepsSum ==
    ASSUME AverageInv, NEW s \in Samples, Push(s)
    PROVE  AverageInv'
<1>0. s \in Residues /\ WindowSize \in Nat \ {0} /\ Modulus \in Nat \ {0}
    BY AverageAssumption DEF Residues
<1>1. window \in Seq(Residues) /\ Len(window) <= WindowSize /\ sum \in Residues /\ sum = WindowSum(window)
    BY DEF AverageInv
<1>2. CASE Panics(s)
    BY <1>1, <1>2 DEF Push, AverageInv
<1>3. CASE ~Panics(s) /\ Len(window) # WindowSize
    <2>1. window' = Append(window, s) /\ sum' = Wrap(sum + s)
        BY <1>3 DEF Push, Shifted
    <2>2. sum' = WindowSum(window')
        BY <1>0, <1>1, <2>1, SumOfAppend
    <2>3. sum' \in Residues
        BY <1>0, <1>1, <2>1, WrapSum
    <2>4. window' \in Seq(Residues) /\ Len(window') <= WindowSize
        BY <1>0, <1>1, <1>3, <2>1
    <2>5. QED
        BY <2>2, <2>3, <2>4 DEF AverageInv
<1>4. CASE ~Panics(s) /\ Len(window) = WindowSize
    <2> DEFINE rest == Tail(window)
               x == Head(window)
               y == WindowSum(rest)
    <2>1. window # <<>> /\ rest \in Seq(Residues) /\ x \in Residues /\ Len(rest) = WindowSize - 1
        BY <1>0, <1>1, <1>4
    <2>2. window' = Append(rest, s) /\ sum' = Wrap(Wrap(sum + s) + Modulus - x)
        BY <1>4 DEF Push, Shifted
    <2>3. sum = Wrap(x + y)
        BY <1>1, <2>1, SumOfTail
    <2>4. WindowSum(window') = Wrap(y + s)
        BY <1>0, <2>1, <2>2, SumOfAppend
    <2>5. y \in Residues
        <3>1. PICK g : IsSum(g, rest) /\ WindowSum(rest) = g[Len(rest)]
            BY <2>1, SumExists
        <3>2. QED
            BY <1>0, <2>1, <3>1 DEF IsSum
    <2>6. window' \in Seq(Residues) /\ Len(window') <= WindowSize
        BY <1>0, <2>1, <2>2
    <2> HIDE DEF rest, x, y
    <2>7. sum' \in Residues /\ sum' = Wrap(y + s)
        <3> DEFINE p == Wrap(sum + s)
        <3>1. /\ sum = IF x + y < Modulus THEN x + y ELSE x + y - Modulus
              /\ p = IF sum + s < Modulus THEN sum + s ELSE sum + s - Modulus
              /\ p \in Residues
              /\ Wrap(y + s) = IF y + s < Modulus THEN y + s ELSE y + s - Modulus
              /\ Wrap(y + s) \in Residues
            BY <1>0, <1>1, <2>1, <2>3, <2>5, WrapSum
        <3> HIDE DEF p
        <3>2. sum' = IF p < x THEN p + Modulus - x ELSE p - x
            BY <2>1, <2>2, <3>1, WrapSum DEF p
        <3>3. sum' = Wrap(y + s)
            <4> DEFINE r == Wrap(y + s)
            <4>1. r = IF y + s < Modulus THEN y + s ELSE y + s - Modulus
                BY <3>1
            <4> HIDE DEF r
            <4>2. sum' = r
                BY <1>0, <1>1, <2>1, <2>5, <3>1, <3>2, <4>1 DEF Residues
            <4>3. QED
                BY <4>2 DEF r
        <3>4. QED
            BY <3>1, <3>3
    <2>8. QED
        BY <2>4, <2>6, <2>7 DEF AverageInv
<1>5. QED
    BY <1>2, <1>3, <1>4

\* SingleSumSMA and NoSumSMA report the same average after any pushes and clears: adding
\* a sample before the oldest is subtracted may wrap, and the wrap is undone, or may panic,
\* and nothing has changed, for any width of the sample type and any window size.
THEOREM SumNeverDrifts == AverageSpec => []AveragesAgree
<1>1. AverageInit => AverageInv
    BY SumOfNone, AverageAssumption DEF AverageInit, AverageInv
<1>2. AverageInv /\ [AverageNext]_averageVars => AverageInv'
    <2> SUFFICES ASSUME AverageInv, [AverageNext]_averageVars
                 PROVE  AverageInv'
        OBVIOUS
    <2>1. CASE Clear
        <3>1. sum \in Residues
            BY DEF AverageInv
        <3>2. sum' = 0
            BY <2>1, <3>1, WrapSum, AverageAssumption DEF Clear, Residues
        <3>3. QED
            BY <2>1, <3>2, SumOfNone, AverageAssumption DEF Clear, AverageInv
    <2>2. CASE \E s \in Samples : Push(s)
        BY <2>2, PushKeepsSum
    <2>3. CASE UNCHANGED averageVars
        BY <2>3 DEF AverageInv, averageVars
    <2>4. QED
        BY <2>1, <2>2, <2>3 DEF AverageNext
<1>3. AverageInv => AveragesAgree
    BY DEF AverageInv, AveragesAgree, Average, ReferenceAverage
<1>4. QED
    BY <1>1, <1>2, <1>3, PTL DEF AverageSpec
-----------------------------------------------------------------------------
(* The weighted choice. *)

\* The sums of the positive weights up to each item.
IsCumulative(g, ws) ==
    /\ g \in [0 .. Len(ws) -> Nat]
    /\ g[0] = 0
    /\ \A k \in Nat : k < Len(ws) => g[k + 1] = g[k] + Positive(ws[k + 1])

\* Cumulative is what its recursion says.
LEMMA CumulativeRecursion ==
    ASSUME NEW ws \in Seq(Int)
    PROVE  IsCumulative(Cumulative(ws), ws)
<1> DEFINE n == Len(ws)
           step == [k \in 1..n |-> [x \in Nat |-> x + Positive(ws[k])]]
           Body(g, k) == IF k = 0 THEN 0 ELSE g[k - 1] + Positive(ws[k])
<1>0. n \in Nat /\ \A k \in 1..n : Positive(ws[k]) \in Nat
    BY DEF Positive
<1> HIDE DEF n
<1>3. step \in [1..n -> [Nat -> Nat]]
    BY <1>0
<1>4. PICK g : Recursion(Nat, 0, step, n, g)
    <2> HIDE DEF step
    <2>1. QED
        BY <1>0, <1>3, RecursionExists
<1>5. ASSUME NEW k \in 0..n
      PROVE  g[k] = Body(g, k)
    <2>1. CASE k = 0
        BY <1>4, <2>1 DEF Recursion
    <2>2. CASE k # 0
        <3>1. k - 1 \in Nat /\ k - 1 < n /\ (k - 1) + 1 = k /\ k \in 1..n /\ k - 1 \in 0..n
            BY <1>0, <2>2
        <3>2. g[k] = step[k][g[k - 1]] /\ g[k - 1] \in Nat
            <4> HIDE DEF step
            <4>1. QED
                BY <1>4, <3>1 DEF Recursion
        <3>3. QED
            BY <2>2, <3>1, <3>2
    <2>3. QED
        BY <2>1, <2>2
<1>6. g = [k \in 0..n |-> Body(g, k)]
    <2>1. g \in [0..n -> Nat]
        BY <1>4, Zenon DEF Recursion
    <2>2. QED
        BY <1>5, <2>1
<1>7. \E f : f = [k \in 0 .. Len(ws) |-> Body(f, k)]
    BY <1>6 DEF n
<1>8. PICK f : f = [k \in 0 .. Len(ws) |-> Body(f, k)] /\ Cumulative(ws) = f
    BY <1>7 DEF Cumulative
<1>9. \A k \in 0..n : f[k] = Body(f, k)
    BY <1>8 DEF n
<1>10. ASSUME NEW k \in Nat, k < n
       PROVE  f[k + 1] = f[k] + Positive(ws[k + 1])
    <2>1. k + 1 \in 0..n /\ k + 1 # 0 /\ (k + 1) - 1 = k
        BY <1>0, <1>10
    <2>2. QED
        BY <1>9, <2>1
<1>11. f[0] = 0
    BY <1>0, <1>9
<1> DEFINE T == {k \in Nat : k <= n => f[k] \in Nat}
<1>12. T = Nat
    <2>1. 0 \in T
        BY <1>11
    <2>2. ASSUME NEW k \in T
          PROVE  k + 1 \in T
        BY <1>0, <1>10
    <2> HIDE DEF T
    <2>3. T \subseteq Nat
        BY DEF T
    <2>4. QED
        BY <2>1, <2>2, <2>3, SetInduction
<1>13. f \in [0..n -> Nat]
    <2>1. \A k \in 0..n : f[k] \in Nat
        BY <1>0, <1>12
    <2>2. QED
        BY <1>8, <2>1 DEF n
<1>14. QED
    BY <1>8, <1>10, <1>11, <1>13 DEF IsCumulative, n

\* The sums do not fall from one item to the next.
LEMMA CumulativeGrows ==
    ASSUME NEW ws \in Seq(Int), NEW i \in 0 .. Len(ws), NEW j \in i .. Len(ws)
    PROVE  Cumulative(ws)[i] <= Cumulative(ws)[j]
<1> DEFINE C == Cumulative(ws)
           n == Len(ws)
           T == {m \in Nat : i + m <= n => C[i] <= C[i + m]}
<1>0. n \in Nat /\ i \in Nat /\ j \in Nat /\ i <= j /\ j <= n
    OBVIOUS
<1>1. /\ \A k \in 0..n : C[k] \in Nat
      /\ \A k \in Nat : k < n => C[k + 1] = C[k] + Positive(ws[k + 1])
    BY CumulativeRecursion DEF IsCumulative
<1>2. \A k \in 1..n : Positive(ws[k]) \in Nat
    BY DEF Positive
<1> HIDE DEF C, n
<1>3. 0 \in T
    BY <1>0, <1>1
<1>4. ASSUME NEW m \in T
      PROVE  m + 1 \in T
    <2> SUFFICES ASSUME i + (m + 1) <= n
                 PROVE  C[i] <= C[i + (m + 1)]
        OBVIOUS
    <2> DEFINE k == i + m
    <2>1. k \in Nat /\ k < n /\ i + (m + 1) = k + 1 /\ k \in 0..n /\ k + 1 \in 1..n /\ C[i] <= C[k]
        BY <1>0
    <2> HIDE DEF k
    <2>2. C[k + 1] = C[k] + Positive(ws[k + 1]) /\ Positive(ws[k + 1]) \in Nat /\ C[k] \in Nat /\ C[i] \in Nat
        BY <1>0, <1>1, <1>2, <2>1
    <2>3. C[i] <= C[k + 1]
        BY <2>1, <2>2
    <2>4. QED
        BY <2>1, <2>3, Zenon
<1> HIDE DEF T
<1>5. T = Nat
    <2>1. T \subseteq Nat
        BY DEF T
    <2>2. QED
        BY <1>3, <1>4, <2>1, SetInduction
<1>6. j - i \in Nat /\ i + (j - i) = j
    BY <1>0
<1>7. QED
    BY <1>0, <1>5, <1>6 DEF T, C

\* The draws that pick item i are those from the sum before it to the one with it.
LEMMA PickedBetween ==
    ASSUME NEW ws \in Seq(Int), NEW i \in 1 .. Len(ws), NEW r \in Draws(ws)
    PROVE  PickIndex(ws, r) = {i} <=> Cumulative(ws)[i - 1] <= r /\ r < Cumulative(ws)[i]
<1> DEFINE C == Cumulative(ws)
           n == Len(ws)
           over == {k \in DOMAIN ws : r < C[k]}
           first == {k \in over : \A m \in over : k <= m}
<1>0. n \in Nat /\ i \in Nat /\ 1 <= i /\ i <= n /\ DOMAIN ws = 1..n
    OBVIOUS
<1>1. C[0] = 0 /\ \A k \in 0..n : C[k] \in Nat
    BY CumulativeRecursion DEF IsCumulative
<1>2. r \in Nat /\ r < C[n] /\ TotalWeight(ws) = C[n] /\ ~(C[n] <= 0)
    BY <1>0, <1>1 DEF Draws, TotalWeight
<1>3. \A k \in 0..n, m \in 0..n : k <= m => C[k] <= C[m]
    <2> SUFFICES ASSUME NEW k \in 0..n, NEW m \in 0..n, k <= m
                 PROVE  C[k] <= C[m]
        OBVIOUS
    <2>1. m \in k..n
        BY <1>0
    <2>2. QED
        BY <2>1, CumulativeGrows
<1> HIDE DEF C, n
<1>4. n \in over
    BY <1>0, <1>2
<1>5. PickIndex(ws, r) = IF n = 1 THEN {1} ELSE first
    <2>1. over # {}
        BY <1>4
    <2>2. QED
        BY <1>2, <2>1, Zenon DEF PickIndex, C, n
<1>6. first = {i} <=> C[i - 1] <= r /\ r < C[i]
    <2>1. ASSUME first = {i}
          PROVE  C[i - 1] <= r /\ r < C[i]
        <3>1. i \in over /\ \A m \in over : i <= m
            BY <2>1
        <3>2. i - 1 \notin over
            BY <1>0, <3>1
        <3>3. CASE i = 1
            BY <1>1, <1>2, <3>1, <3>3
        <3>4. CASE i # 1
            <4>1. i - 1 \in DOMAIN ws /\ C[i - 1] \in Nat
                BY <1>0, <1>1, <3>4
            <4>2. ~(r < C[i - 1])
                BY <3>2, <4>1
            <4>3. QED
                BY <1>2, <3>1, <4>1, <4>2
        <3>5. QED
            BY <3>3, <3>4
    <2>2. ASSUME C[i - 1] <= r, r < C[i]
          PROVE  first = {i}
        <3>1. i \in over
            BY <1>0, <2>2
        <3>2. ASSUME NEW m \in over
              PROVE  i <= m
            <4>1. m \in Nat /\ m \in 1..n /\ r < C[m] /\ C[m] \in Nat /\ m \in 0..n
                BY <1>0, <1>1
            <4>2. SUFFICES ASSUME m <= i - 1 PROVE FALSE
                BY <1>0, <4>1
            <4>3. i - 1 \in 0..n /\ C[i - 1] \in Nat
                BY <1>0, <1>1
            <4>4. C[m] <= C[i - 1]
                BY <1>3, <4>1, <4>2, <4>3
            <4>5. QED
                BY <1>2, <2>2, <4>1, <4>3, <4>4
        <3>3. i \in first
            BY <3>1, <3>2
        <3>4. ASSUME NEW m \in first
              PROVE  m = i
            <4>1. m <= i /\ i <= m /\ m \in 1..n
                BY <1>0, <3>1, <3>2
            <4>2. QED
                BY <1>0, <4>1
        <3> HIDE DEF first
        <3>5. QED
            BY <3>3, <3>4
    <2>3. QED
        BY <2>1, <2>2
<1>7. CASE n = 1
    <2>1. i = 1 /\ PickIndex(ws, r) = {i}
        BY <1>0, <1>5, <1>7
    <2>2. C[i - 1] <= r /\ r < C[i]
        BY <1>1, <1>2, <1>7, <2>1
    <2>3. QED
        BY <2>1, <2>2 DEF C
<1>8. CASE n # 1
    <2>1. PickIndex(ws, r) = first
        BY <1>5, <1>8
    <2>2. QED
        BY <1>6, <2>1 DEF C
<1>9. QED
    BY <1>7, <1>8

\* As many draws pick an item as its weight, if positive.
LEMMA DrawsCount ==
    ASSUME NEW ws \in Seq(Int), NEW i \in DOMAIN ws
    PROVE  Cardinality({r \in Draws(ws) : PickIndex(ws, r) = {i}}) = Positive(ws[i])
<1> DEFINE C == Cumulative(ws)
           n == Len(ws)
           lo == C[i - 1]
           hi == C[i]
<1>0. n \in Nat /\ i \in Nat /\ i \in 1..n /\ Positive(ws[i]) \in Nat
    BY DEF Positive
<1>1. lo \in Nat /\ hi \in Nat /\ hi = lo + Positive(ws[i]) /\ hi <= C[n] /\ C[n] \in Nat
    <2>1. IsCumulative(C, ws)
        BY CumulativeRecursion
    <2>2. C[i] <= C[n]
        <3>1. i \in 0..n /\ n \in i..n
            BY <1>0
        <3>2. QED
            BY <3>1, CumulativeGrows
    <2> HIDE DEF C
    <2>3. i - 1 \in Nat /\ i - 1 < n /\ (i - 1) + 1 = i
        BY <1>0
    <2>4. QED
        BY <1>0, <2>1, <2>2, <2>3 DEF IsCumulative
<1>2. Draws(ws) = 0 .. C[n] - 1
    BY DEF Draws, TotalWeight
<1>3. {r \in Draws(ws) : PickIndex(ws, r) = {i}} = {r \in Draws(ws) : lo <= r /\ r < hi}
    BY <1>0, PickedBetween
<1> HIDE DEF C, lo, hi, n
<1>4. {r \in Draws(ws) : lo <= r /\ r < hi} = lo .. hi - 1
    BY <1>1, <1>2
<1>5. Cardinality(lo .. hi - 1) = Positive(ws[i])
    <2> DEFINE top == hi - 1
    <2>1. lo \in Int /\ top \in Int
        BY <1>1
    <2> HIDE DEF top
    <2>2. Cardinality(lo .. top) = IF lo > top THEN 0 ELSE top - lo + 1
        BY <2>1, FS_Interval
    <2>3. (IF lo > top THEN 0 ELSE top - lo + 1) = Positive(ws[i])
        BY <1>0, <1>1 DEF top
    <2>4. Cardinality(lo .. top) = Positive(ws[i])
        BY <2>2, <2>3
    <2>5. QED
        BY <2>4 DEF top
<1>6. QED
    BY <1>3, <1>4, <1>5, Zenon

\* pick_index chooses each item with as many draws as its weight, an item without a
\* positive weight never, for any number of items and any integer weights.
THEOREM PicksAreProportionalAlways == WeightedSpec => []PicksAreProportional
<1> DEFINE Inv == weights \in Seq(Int)
<1>1. WeightedInit => Inv
    <2> SUFFICES ASSUME WeightedInit
                 PROVE  Inv
        OBVIOUS
    <2>1. PICK n \in 0 .. MaxItems : weights \in [1..n -> Weights]
        BY DEF WeightedInit
    <2>2. n \in Nat
        BY <2>1, WeightedAssumption
    <2>3. \A k \in 1..n : weights[k] \in Int
        BY <2>1, WeightedAssumption
    <2>4. weights \in [1..n -> Int]
        BY <2>1, <2>3
    <2>5. QED
        BY <2>2, <2>4
<1>2. Inv /\ [WeightedNext]_weightedVars => Inv'
    BY DEF WeightedNext, weightedVars, Pick, Shuffle
<1>3. Inv => PicksAreProportional
    BY DrawsCount DEF PicksAreProportional
<1>4. QED
    BY <1>1, <1>2, <1>3, PTL DEF WeightedSpec
=============================================================================
