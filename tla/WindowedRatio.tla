---------------------------- MODULE WindowedRatio ----------------------------
(***************************************************************************)
(* WindowedRatio: observed over expected events in a ring of time slices.  *)
(* Records may come out of order and before the epoch.  Two ghosts, noted  *)
(* and newest, remember every record ever made.                            *)
(***************************************************************************)
EXTENDS Integers

CONSTANTS
    BUCKETS,
    Width,    \* bucket_width, in ticks
    Horizon,  \* bound on time; the epoch is tick 0
    Counts,   \* the counts one call records
    MaxCount  \* u64::MAX

ASSUME RatioAssumption ==
    /\ BUCKETS \in Nat \ {0} /\ Width \in Nat \ {0} /\ Horizon \in Nat
    /\ MaxCount \in Nat /\ Counts \subseteq 0..MaxCount

VARIABLES
    buckets,  \* [0..BUCKETS-1 -> [stamp, expected, observed]]
    noted,    \* ghost: for every slice, the saturated totals recorded in it
    newest    \* ghost: the latest slice a record was made in

ratioVars == <<buckets, noted, newest>>

Slots == 0 .. BUCKETS - 1
Ticks == -Width .. Horizon
SliceCount == Horizon \div Width + 1
Slices == 0 .. SliceCount - 1
Empty == [expected |-> 0, observed |-> 0]

SaturatingAdd(m, n) == IF m + n > MaxCount THEN MaxCount ELSE m + n

\* saturating_duration_since: everything before the epoch is slice 0.
AbsoluteBucket(now) == IF now < 0 THEN 0 ELSE now \div Width

RatioInit ==
    /\ buckets = [i \in Slots |-> [stamp |-> 0, expected |-> 0, observed |-> 0]]
    /\ noted = [t \in Slices |-> Empty]
    /\ newest = 0
-----------------------------------------------------------------------------
\* Mutant: a late record claims the slot of a newer slice.
BucketAtSteals(t) ==
    LET b == buckets[t % BUCKETS]
    IN  IF t = b.stamp THEN {b} ELSE {[stamp |-> t, expected |-> 0, observed |-> 0]}

\* bucket_at: the slot's bucket, cleared when it is claimed for a newer slice;
\* nothing when it already holds one.
BucketAt(t) ==
    LET b == buckets[t % BUCKETS]
    IN  IF t < b.stamp THEN {}
        ELSE IF t = b.stamp THEN {b}
        ELSE {[stamp |-> t, expected |-> 0, observed |-> 0]}

Claimed(t, bucket) == buckets' = [buckets EXCEPT ![t % BUCKETS] = bucket]

RecordExpected(count, now) ==
    LET t == AbsoluteBucket(now)
    IN  /\ \/ \E b \in BucketAt(t) :
                 Claimed(t, [b EXCEPT !.expected = SaturatingAdd(@, count)])
           \/ BucketAt(t) = {} /\ UNCHANGED buckets
        /\ noted' = [noted EXCEPT ![t].expected = SaturatingAdd(@, count)]
        /\ newest' = IF t > newest THEN t ELSE newest

RecordObserved(count, now) ==
    LET t == AbsoluteBucket(now)
    IN  /\ \/ \E b \in BucketAt(t) :
                 Claimed(t, [b EXCEPT !.observed = SaturatingAdd(@, count)])
           \/ BucketAt(t) = {} /\ UNCHANGED buckets
        /\ noted' = [noted EXCEPT ![t].observed = SaturatingAdd(@, count)]
        /\ newest' = IF t > newest THEN t ELSE newest

RatioNext ==
    \E count \in Counts, now \in Ticks : RecordExpected(count, now) \/ RecordObserved(count, now)

RatioSpec == RatioInit /\ [][RatioNext]_ratioVars
-----------------------------------------------------------------------------
(* Reading. *)

Clamp(n) == IF n < 1 THEN 1 ELSE IF n > BUCKETS THEN BUCKETS ELSE n

\* Mutant: the window leaves out its oldest slice.
OldestBucketNarrow(slices, now) ==
    LET back == AbsoluteBucket(now) - (Clamp(slices) - 2) IN IF back < 0 THEN 0 ELSE back

\* The slices a read of the given width covers.
OldestBucket(slices, now) ==
    LET back == AbsoluteBucket(now) - (Clamp(slices) - 1) IN IF back < 0 THEN 0 ELSE back
Window(slices, now) == OldestBucket(slices, now) .. AbsoluteBucket(now)

\* The saturating total of the counts of those of the first n places that are in S.
SaturatedTotal(count, S, n) ==
    LET total[k \in 0 .. n] ==
            IF k = 0 THEN 0
            ELSE IF k - 1 \in S THEN SaturatingAdd(total[k - 1], count[k - 1])
            ELSE total[k - 1]
    IN  total[n]

\* The slots recent_value folds over, and its two totals.
Live(slices, now) == {i \in Slots : buckets[i].stamp \in Window(slices, now)}
Expected(slices, now) ==
    SaturatedTotal([i \in Slots |-> buckets[i].expected], Live(slices, now), BUCKETS)
Observed(slices, now) ==
    SaturatedTotal([i \in Slots |-> buckets[i].observed], Live(slices, now), BUCKETS)

\* A quotient o/e in 0..1 is kept as the pair <<o, e>>; None is <<>>.
Quotient(o, e) == IF e = 0 THEN <<>> ELSE IF o > e THEN <<e, e>> ELSE <<o, e>>
RecentValue(slices, now) == Quotient(Observed(slices, now), Expected(slices, now))
-----------------------------------------------------------------------------
\* The shape of the ring: a slot only ever holds slices that map to it.
RatioTypeOK ==
    /\ buckets \in [Slots -> [stamp : Nat, expected : 0..MaxCount, observed : 0..MaxCount]]
    /\ noted \in [Slices -> [expected : 0..MaxCount, observed : 0..MaxCount]]
    /\ newest \in Slices
    /\ \A i \in Slots : buckets[i].stamp # 0 => buckets[i].stamp % BUCKETS = i

\* No late record costs live evidence: of the slices within a window of the newest
\* record, each is either in its slot, complete, or was never recorded (bucket_at); counts
\* saturate and a slot holds only slices that map to it.
LiveSlicesExact ==
    /\ RatioTypeOK
    /\ \A t \in Slices :
           t <= newest /\ newest < t + BUCKETS =>
               LET b == buckets[t % BUCKETS]
               IN  IF b.stamp = t
                   THEN b.expected = noted[t].expected /\ b.observed = noted[t].observed
                   ELSE noted[t] = Empty

\* The current slice and the n - 1 before it, and which n a width asked for stands for.
LastSlices(n, now) == {t \in Slices : t <= AbsoluteBucket(now) /\ AbsoluteBucket(now) < t + n}
StandsFor(asked, n) == asked = n \/ (asked < 1 /\ n = 1) \/ (asked > BUCKETS /\ n = BUCKETS)

\* Whatever order the records came in, value and recent_value at a time not before
\* any record are the ratio over all the records in their slices, no slice more and none
\* less, and None exactly when nothing was expected in them.
ReadsAreExact ==
    \A asked \in 0 .. BUCKETS + 1, n \in 1 .. BUCKETS, now \in Ticks :
        AbsoluteBucket(now) >= newest /\ StandsFor(asked, n) =>
            LET W == LastSlices(n, now)
                e == SaturatedTotal([t \in Slices |-> noted[t].expected], W, SliceCount)
                o == SaturatedTotal([t \in Slices |-> noted[t].observed], W, SliceCount)
            IN  RecentValue(asked, now) = Quotient(o, e)

\* LiveSlicesExact, strengthened to what every record preserves: a slot at its slice is
\* complete, a slice its slot has not reached was never recorded, and a slot of another
\* slice than 0 that still has the stamp 0 is empty.
RingInv ==
    /\ \A i \in Slots : buckets[i].stamp <= newest
    /\ \A i \in Slots : i # 0 /\ buckets[i].stamp = 0 =>
           buckets[i].expected = 0 /\ buckets[i].observed = 0
    /\ \A t \in Slices :
          LET b == buckets[t % BUCKETS]
          IN  /\ b.stamp = t => /\ b.expected = noted[t].expected
                                /\ b.observed = noted[t].observed
              /\ b.stamp < t => noted[t] = Empty
=============================================================================
