---------------------------- MODULE RuntimeProofs ----------------------------
(***************************************************************************)
(* Proofs about the runtime's helpers, for any number of tasks, lists,     *)
(* futures and warning intervals: the counters of Diagnostics balance and  *)
(* its warnings are spaced; no task of an AbortableList outlives the lists *)
(* that hold it, and none is aborted that was not removed.                 *)
(***************************************************************************)
EXTENDS Diagnostics, AbortableList, FiniteSetTheorems, TLAPS

Points == {"none", "wrapping", "live", "completing", "dropping", "load", "exchange", "finished", "gone"}
Begun == {"wrapping", "live", "completing", "dropping", "load", "exchange", "finished", "gone"}
Counted == {"load", "exchange", "finished", "gone"}

Types ==
    /\ diagnosed \in BOOLEAN /\ now \in Nat
    /\ {started, completed, dropped, totalPolls} \subseteq Nat /\ inFlight \in Int
    /\ lastWarn \in [{"polls", "children"} -> Nat]
    /\ step \in [Actors -> Points]
    /\ elapsed \in [Actors -> Nat] /\ last \in [Actors -> Nat]

\* A future about to exchange measured its time long enough after the warning it saw.
DueAt(a) == step[a] = "exchange" => elapsed[a] >= last[a] + WarnEvery

IInv == Types /\ CountersBalance /\ \A a \in Actors : DueAt(a)
-----------------------------------------------------------------------------
(* Counting the children at a point. *)

\* One child moves: the number of children in a set of points changes by what the move
\* brings in and takes out.
LEMMA AtMove ==
    ASSUME Types, NEW c \in Children, NEW from, NEW to, Go(c, from, to), NEW S
    PROVE  /\ At(S) \in Nat /\ At(S)' \in Nat
           /\ At(S)' = At(S) + (IF to \in S THEN 1 ELSE 0) - (IF from \in S THEN 1 ELSE 0)
<1> DEFINE A == {x \in Children : step[x] \in S}
           B == {x \in Children : step'[x] \in S}
           R == A \ {c}
<1>1. step[c] = from /\ step'[c] = to /\ \A x \in Children : x # c => step'[x] = step[x]
    BY DEF Go, Types, Actors
<1>2. IsFiniteSet(A)
    BY DiagnosticsAssumption, FS_Subset
<1>3. Cardinality(A) \in Nat
    BY <1>2, FS_CardinalityType
<1>4. IsFiniteSet(R) /\ Cardinality(R) = IF c \in A THEN Cardinality(A) - 1 ELSE Cardinality(A)
    BY <1>2, FS_RemoveElement
<1>5. Cardinality(R) \in Nat
    BY <1>4, FS_CardinalityType
<1>6. Cardinality(R \cup {c}) = Cardinality(R) + 1
    <2>1. c \notin R
        OBVIOUS
    <2>2. QED
        BY <1>4, <2>1, FS_AddElement
<1>7. B = IF to \in S THEN R \cup {c} ELSE R
    BY <1>1
<1>8. c \in A <=> from \in S
    BY <1>1
<1>9. At(S) = Cardinality(A) /\ At(S)' = Cardinality(B)
    BY DEF At
<1> HIDE DEF A, B, R
<1>10. Cardinality(B) = IF to \in S THEN Cardinality(R) + 1 ELSE Cardinality(R)
    BY <1>6, <1>7
<1>11. QED
    BY <1>3, <1>4, <1>5, <1>8, <1>9, <1>10

\* What the moves of one child do to the three numbers the counters are compared with.
LEMMA ChildMove ==
    ASSUME Types, NEW c \in Children, NEW from \in Points, NEW to \in Points, Go(c, from, to)
    PROVE  /\ {At(Begun), At({"live"}), At(Counted)} \subseteq Nat
           /\ At(Begun)' = At(Begun) + (IF to = "none" THEN 0 ELSE 1) - (IF from = "none" THEN 0 ELSE 1)
           /\ At({"live"})' = At({"live"}) + (IF to = "live" THEN 1 ELSE 0) - (IF from = "live" THEN 1 ELSE 0)
           /\ At(Counted)' = At(Counted) + (IF to \in Counted THEN 1 ELSE 0)
                                         - (IF from \in Counted THEN 1 ELSE 0)
<1>1. /\ to \in Begun <=> to # "none"
      /\ from \in Begun <=> from # "none"
      /\ to \in {"live"} <=> to = "live"
      /\ from \in {"live"} <=> from = "live"
    BY DEF Points, Begun
<1>2. ASSUME NEW S
      PROVE  /\ At(S) \in Nat
             /\ At(S)' = At(S) + (IF to \in S THEN 1 ELSE 0) - (IF from \in S THEN 1 ELSE 0)
    BY AtMove
<1>3. /\ At(Begun) \in Nat
      /\ At(Begun)' = At(Begun) + (IF to \in Begun THEN 1 ELSE 0) - (IF from \in Begun THEN 1 ELSE 0)
    <2>1. At(Begun)' = Cardinality({x \in Children : step'[x] \in Begun})
        BY DEF At, Begun
    <2>2. QED
        BY <1>2, <2>1 DEF At
<1>4. /\ At({"live"}) \in Nat
      /\ At({"live"})' = At({"live"}) + (IF to \in {"live"} THEN 1 ELSE 0) - (IF from \in {"live"} THEN 1 ELSE 0)
    BY <1>2
<1>5. /\ At(Counted) \in Nat
      /\ At(Counted)' = At(Counted) + (IF to \in Counted THEN 1 ELSE 0) - (IF from \in Counted THEN 1 ELSE 0)
    <2>1. At(Counted)' = Cardinality({x \in Children : step'[x] \in Counted})
        BY DEF At, Counted
    <2>2. QED
        BY <1>2, <2>1 DEF At
<1>6. QED
    BY <1>1, <1>3, <1>4, <1>5

\* The poller is no child: what it does moves none.
LEMMA PollerMove ==
    ASSUME Types, \A x \in Children : step'[x] = step[x]
    PROVE  /\ At(Begun)' = At(Begun) /\ At({"live"})' = At({"live"}) /\ At(Counted)' = At(Counted)
<1>1. ASSUME NEW S
      PROVE  {x \in Children : step'[x] \in S} = {x \in Children : step[x] \in S}
    OBVIOUS
<1>2. QED
    BY <1>1 DEF At, Begun, Counted
-----------------------------------------------------------------------------
(* The steps. *)

\* The points a step moves between are points, the numbers stay numbers.
LEMMA Constants ==
    /\ WarnEvery \in Nat /\ WarnEvery # 0 /\ Poller \notin Children
    /\ Poller \in Actors /\ Children \subseteq Actors /\ \A a \in Actors : After(a) \in Points
<1>1. EnvWarnEvery \in Nat /\ DefaultWarnEvery \in Nat /\ DefaultWarnEvery # 0
    BY DiagnosticsAssumption
<1>2. WarnEvery \in Nat /\ WarnEvery # 0
    BY <1>1 DEF WarnEvery, Configured
<1>3. QED
    BY <1>2, DiagnosticsAssumption DEF Actors, After, Points

\* Moving one future keeps its place a point, and the other futures'.
LEMMA GoTypes ==
    ASSUME Types, NEW a \in Actors, NEW from, NEW to \in Points, Go(a, from, to)
    PROVE  /\ step' \in [Actors -> Points] /\ step[a] = from /\ step'[a] = to
           /\ \A b \in Actors : b # a => step'[b] = step[b]
BY DEF Types, Go

\* A child is wrapped, completes its future or is dropped: one counter, one atomic operation.
ChildStep(c) == \/ WrapStarted(c) \/ WrapInFlight(c) \/ PollReady(c) \/ DropFuture(c) \/ CountDropped(c)
\* Such a step keeps the invariant.
LEMMA ChildStepKeeps ==
    ASSUME IInv, NEW c \in Children, ChildStep(c)
    PROVE  IInv'
<1>0. Types /\ CountersBalance /\ c \in Actors /\ \A a \in Actors : DueAt(a)
    BY Constants DEF IInv
<1>1. UNCHANGED <<diagnosed, now, lastWarn, elapsed, last, totalPolls>>
    BY DEF ChildStep, WrapStarted, WrapInFlight, PollReady, DropFuture, CountDropped, Still
<1>2. PICK from \in Points, to \in Points : Go(c, from, to) /\ to # "exchange"
        /\ \/ /\ from = "none" /\ to = "wrapping" /\ UNCHANGED <<completed, dropped, inFlight>>
              /\ started' = IF diagnosed THEN started + 1 ELSE started
           \/ /\ from = "wrapping" /\ to = "live" /\ UNCHANGED <<started, completed, dropped>>
              /\ inFlight' = IF diagnosed THEN inFlight + 1 ELSE inFlight
           \/ /\ from = "live" /\ to \in {"completing", "dropping"} /\ UNCHANGED <<started, completed, dropped>>
              /\ inFlight' = IF diagnosed THEN inFlight - 1 ELSE inFlight
           \/ /\ from = "finished" /\ to = "gone" /\ UNCHANGED <<started, completed, dropped, inFlight>>
           \/ /\ from = "dropping" /\ to = "gone" /\ UNCHANGED <<started, completed, inFlight>>
              /\ dropped' = IF diagnosed THEN dropped + 1 ELSE dropped
    <2>1. {"none", "wrapping", "live", "completing", "dropping", "finished", "gone"} \subseteq Points
        BY DEF Points
    <2>2. QED
        BY <2>1 DEF ChildStep, WrapStarted, WrapInFlight, PollReady, DropFuture, CountDropped
<1>3. /\ step' \in [Actors -> Points] /\ step'[c] = to
      /\ \A b \in Actors : b # c => step'[b] = step[b]
    BY <1>0, <1>2, GoTypes
<1>4. {started, completed, dropped} \subseteq Nat /\ inFlight \in Int /\ diagnosed \in BOOLEAN
    BY <1>0 DEF Types
<1>5. Types'
    <2>1. {started', completed', dropped'} \subseteq Nat /\ inFlight' \in Int
        BY <1>2, <1>4
    <2>2. QED
        BY <1>0, <1>1, <1>3, <2>1 DEF Types
<1>6. CountersBalance'
    <2> DEFINE b == At(Begun)  l == At({"live"})  k == At(Counted)
               b2 == At(Begun)'  l2 == At({"live"})'  k2 == At(Counted)'
    <2>1. /\ {b, l, k} \subseteq Nat
          /\ b2 = b + (IF to = "none" THEN 0 ELSE 1) - (IF from = "none" THEN 0 ELSE 1)
          /\ l2 = l + (IF to = "live" THEN 1 ELSE 0) - (IF from = "live" THEN 1 ELSE 0)
          /\ k2 = k + (IF to \in Counted THEN 1 ELSE 0) - (IF from \in Counted THEN 1 ELSE 0)
        BY <1>0, <1>2, ChildMove
    <2>2. diagnosed => started = b /\ inFlight = l /\ completed + dropped = k
        BY <1>0 DEF CountersBalance, Begun, Counted
    <2> HIDE DEF b, l, k, b2, l2, k2
    <2>3. diagnosed => started' = b2 /\ inFlight' = l2 /\ completed' + dropped' = k2
        BY <1>2, <1>4, <2>1, <2>2 DEF Counted
    <2>4. QED
        BY <1>1, <2>3 DEF CountersBalance, b2, l2, k2, Begun, Counted, At
<1>7. \A a \in Actors : DueAt(a)'
    BY <1>0, <1>1, <1>2, <1>3 DEF DueAt
<1>8. QED
    BY <1>5, <1>6, <1>7 DEF IInv

\* mark_finished counts a completion and measures the time the warning is judged by.
LEMMA CountCompletedKeeps ==
    ASSUME IInv, NEW c \in Children, CountCompleted(c)
    PROVE  IInv'
<1>0. Types /\ CountersBalance /\ c \in Actors /\ \A a \in Actors : DueAt(a)
    BY Constants DEF IInv
<1>1. /\ UNCHANGED <<diagnosed, now, lastWarn, last, totalPolls, started, dropped, inFlight>>
      /\ elapsed' = [elapsed EXCEPT ![c] = now]
      /\ completed' = IF diagnosed THEN completed + 1 ELSE completed
    BY DEF CountCompleted, Measure
<1>2. PICK to \in {"load", "finished"} : Go(c, "completing", to)
    BY DEF CountCompleted, Measure
<1>3. {"completing", "load", "finished"} \subseteq Points
    BY DEF Points
<1>4. /\ step' \in [Actors -> Points] /\ step'[c] = to
      /\ \A b \in Actors : b # c => step'[b] = step[b]
    BY <1>0, <1>2, <1>3, GoTypes
<1>5. {started, completed, dropped} \subseteq Nat /\ diagnosed \in BOOLEAN /\ now \in Nat
    BY <1>0 DEF Types
<1>6. Types'
    <2>1. completed' \in Nat /\ elapsed' \in [Actors -> Nat]
        BY <1>0, <1>1, <1>5 DEF Types
    <2>2. QED
        BY <1>0, <1>1, <1>4, <2>1 DEF Types
<1>7. CountersBalance'
    <2> DEFINE b == At(Begun)  l == At({"live"})  k == At(Counted)
               b2 == At(Begun)'  l2 == At({"live"})'  k2 == At(Counted)'
    <2>1. /\ {b, l, k} \subseteq Nat
          /\ b2 = b + (IF to = "none" THEN 0 ELSE 1) - (IF "completing" = "none" THEN 0 ELSE 1)
          /\ l2 = l + (IF to = "live" THEN 1 ELSE 0) - (IF "completing" = "live" THEN 1 ELSE 0)
          /\ k2 = k + (IF to \in Counted THEN 1 ELSE 0) - (IF "completing" \in Counted THEN 1 ELSE 0)
        BY <1>0, <1>2, <1>3, ChildMove
    <2>2. diagnosed => started = b /\ inFlight = l /\ completed + dropped = k
        BY <1>0 DEF CountersBalance, Begun, Counted
    <2> HIDE DEF b, l, k, b2, l2, k2
    <2>3. diagnosed => started' = b2 /\ inFlight' = l2 /\ completed' + dropped' = k2
        BY <1>1, <1>2, <1>5, <2>1, <2>2 DEF Counted
    <2>4. QED
        BY <1>1, <2>3 DEF CountersBalance, b2, l2, k2, Begun, Counted, At
<1>8. ASSUME NEW a \in Actors
      PROVE  DueAt(a)'
    <2>1. CASE a = c
        BY <1>2, <1>4, <2>1 DEF DueAt
    <2>2. CASE a # c
        <3>1. step'[a] = step[a] /\ elapsed'[a] = elapsed[a] /\ last'[a] = last[a]
            BY <1>0, <1>1, <1>4, <2>2 DEF Types
        <3>2. QED
            BY <1>0, <3>1 DEF DueAt
    <2>3. QED
        BY <2>1, <2>2
<1>9. QED
    BY <1>6, <1>7, <1>8 DEF IInv

\* The counters and the children at rest: the balance stays.
LEMMA BalanceStill ==
    ASSUME Types, CountersBalance, UNCHANGED <<diagnosed, started, completed, dropped, inFlight>>,
           \A x \in Children : step'[x] = step[x]
    PROVE  CountersBalance'
<1>1. At(Begun)' = At(Begun) /\ At({"live"})' = At({"live"}) /\ At(Counted)' = At(Counted)
    BY PollerMove
<1>2. QED
    BY <1>1 DEF CountersBalance, Begun, Counted, At

\* PollDiagnosticFuture counts a poll.
LEMMA PollCountedKeeps ==
    ASSUME IInv, PollCounted
    PROVE  IInv'
<1>0. Types /\ CountersBalance /\ Poller \in Actors /\ \A a \in Actors : DueAt(a)
    BY Constants DEF IInv
<1>1. /\ UNCHANGED <<diagnosed, now, lastWarn, last, started, completed, dropped, inFlight>>
      /\ elapsed' = [elapsed EXCEPT ![Poller] = now]
      /\ totalPolls' = IF diagnosed THEN totalPolls + 1 ELSE totalPolls
    BY DEF PollCounted, Measure
<1>2. PICK to \in {"load", "live"} : Go(Poller, "live", to)
    BY DEF PollCounted, Measure
<1>3. {"load", "live"} \subseteq Points
    BY DEF Points
<1>4. /\ step' \in [Actors -> Points] /\ step'[Poller] = to
      /\ \A b \in Actors : b # Poller => step'[b] = step[b]
    BY <1>0, <1>2, <1>3, GoTypes
<1>5. Types'
    <2>1. totalPolls' \in Nat /\ elapsed' \in [Actors -> Nat]
        BY <1>0, <1>1 DEF Types
    <2>2. QED
        BY <1>0, <1>1, <1>4, <2>1 DEF Types
<1>6. CountersBalance'
    BY <1>0, <1>1, <1>4, Constants, BalanceStill
<1>7. ASSUME NEW a \in Actors
      PROVE  DueAt(a)'
    <2>1. CASE a = Poller
        BY <1>2, <1>4, <2>1 DEF DueAt
    <2>2. CASE a # Poller
        <3>1. step'[a] = step[a] /\ elapsed'[a] = elapsed[a] /\ last'[a] = last[a]
            BY <1>0, <1>1, <1>4, <2>2 DEF Types
        <3>2. QED
            BY <1>0, <3>1 DEF DueAt
    <2>3. QED
        BY <2>1, <2>2
<1>8. QED
    BY <1>5, <1>6, <1>7 DEF IInv

\* Inside should_warn a child stays among the counted ones.
LEMMA BalanceInWarn ==
    ASSUME Types, CountersBalance, UNCHANGED <<diagnosed, started, completed, dropped, inFlight>>,
           NEW a \in Actors, NEW from \in {"load", "exchange"}, NEW to \in {"load", "exchange", After(a)},
           Go(a, from, to)
    PROVE  CountersBalance'
<1>1. to \in Points /\ from \in Points
    BY Constants DEF Points
<1>2. CASE a = Poller
    <2>1. \A x \in Children : step'[x] = step[x]
        BY <1>1, <1>2, GoTypes, Constants
    <2>2. QED
        BY <2>1, BalanceStill
<1>3. CASE a # Poller
    <2>1. a \in Children /\ to \in {"load", "exchange", "finished"}
        BY <1>3 DEF Actors, After
    <2> DEFINE b == At(Begun)  l == At({"live"})  k == At(Counted)
               b2 == At(Begun)'  l2 == At({"live"})'  k2 == At(Counted)'
    <2>2. /\ {b, l, k} \subseteq Nat
          /\ b2 = b + (IF to = "none" THEN 0 ELSE 1) - (IF from = "none" THEN 0 ELSE 1)
          /\ l2 = l + (IF to = "live" THEN 1 ELSE 0) - (IF from = "live" THEN 1 ELSE 0)
          /\ k2 = k + (IF to \in Counted THEN 1 ELSE 0) - (IF from \in Counted THEN 1 ELSE 0)
        BY <1>1, <2>1, ChildMove
    <2>3. diagnosed => started = b /\ inFlight = l /\ completed + dropped = k
        BY DEF CountersBalance, Begun, Counted
    <2> HIDE DEF b, l, k, b2, l2, k2
    <2>4. b2 = b /\ l2 = l /\ k2 = k
        BY <2>1, <2>2 DEF Counted
    <2>5. QED
        BY <2>3, <2>4 DEF CountersBalance, b2, l2, k2, Begun, Counted, At
<1>4. QED
    BY <1>2, <1>3

\* should_warn loads the time of the last warning and goes on only if that is long enough ago.
LEMMA LoadLastKeeps ==
    ASSUME IInv, NEW a \in Actors, LoadLast(a)
    PROVE  IInv'
<1> DEFINE seen == lastWarn[Meter(a)]
           since == IF elapsed[a] > seen THEN elapsed[a] - seen ELSE 0
           to == IF since < WarnEvery THEN After(a) ELSE "exchange"
<1>0. Types /\ CountersBalance /\ \A b \in Actors : DueAt(b)
    BY DEF IInv
<1>1. /\ Go(a, "load", to) /\ last' = [last EXCEPT ![a] = seen]
      /\ UNCHANGED <<diagnosed, now, started, completed, dropped, inFlight, totalPolls, lastWarn, elapsed>>
    BY DEF LoadLast, counters
<1>2. seen \in Nat /\ elapsed[a] \in Nat
    BY <1>0 DEF Types, Meter
<1>3. to # "exchange" \/ elapsed[a] >= seen + WarnEvery
    <2> DEFINE e == elapsed[a]
               n == seen
               w == WarnEvery
    <2>1. n \in Nat /\ e \in Nat /\ w \in Nat /\ w # 0 /\ After(a) # "exchange"
        BY <1>2, Constants DEF After
    <2>2. since = IF e > n THEN e - n ELSE 0
        OBVIOUS
    <2>3. to = IF since < w THEN After(a) ELSE "exchange"
        OBVIOUS
    <2> HIDE DEF e, n, w, since, to, seen
    <2>4. since < w \/ e >= n + w
        BY <2>1, <2>2
    <2>5. QED
        BY <2>1, <2>3, <2>4 DEF e, n, w
<1>4. to \in {"load", "exchange", After(a)} /\ to \in Points
    BY Constants DEF Points
<1> HIDE DEF to, seen
<1>5. /\ step' \in [Actors -> Points] /\ step'[a] = to
      /\ \A b \in Actors : b # a => step'[b] = step[b]
    BY <1>0, <1>1, <1>4, GoTypes
<1>6. Types'
    BY <1>0, <1>1, <1>2, <1>5 DEF Types
<1>7. CountersBalance'
    BY <1>0, <1>1, <1>4, BalanceInWarn
<1>8. ASSUME NEW b \in Actors
      PROVE  DueAt(b)'
    <2>1. CASE b = a
        <3>1. last'[a] = seen /\ elapsed'[a] = elapsed[a]
            BY <1>0, <1>1 DEF Types
        <3>2. step'[a] = "exchange" => elapsed'[a] >= last'[a] + WarnEvery
            BY <1>3, <1>5, <3>1
        <3>3. QED
            BY <2>1, <3>2 DEF DueAt, WarnEvery
    <2>2. CASE b # a
        <3>1. step'[b] = step[b] /\ elapsed'[b] = elapsed[b] /\ last'[b] = last[b]
            BY <1>0, <1>1, <1>5, <2>2 DEF Types
        <3>2. QED
            BY <1>0, <3>1 DEF DueAt
    <2>3. QED
        BY <2>1, <2>2
<1>9. QED
    BY <1>6, <1>7, <1>8 DEF IInv

\* The compare_exchange takes the time it measured, or goes back to the load.
LEMMA ExchangeKeeps ==
    ASSUME IInv, NEW a \in Actors, Exchange(a)
    PROVE  IInv'
<1>0. Types /\ CountersBalance /\ \A b \in Actors : DueAt(b)
    BY DEF IInv
<1>1. UNCHANGED <<diagnosed, now, started, completed, dropped, inFlight, totalPolls, elapsed, last>>
    BY DEF Exchange, counters
<1>2. PICK to \in {"load", After(a)} : Go(a, "exchange", to)
    BY DEF Exchange
<1>3. to \in Points /\ to # "exchange"
    BY Constants DEF Points, After
<1>4. /\ step' \in [Actors -> Points] /\ step'[a] = to
      /\ \A b \in Actors : b # a => step'[b] = step[b]
    BY <1>0, <1>2, <1>3, GoTypes
<1>5. lastWarn' \in [{"polls", "children"} -> Nat]
    BY <1>0 DEF Exchange, Types, Meter
<1>6. Types'
    BY <1>0, <1>1, <1>4, <1>5 DEF Types
<1>7. CountersBalance'
    BY <1>0, <1>1, <1>2, BalanceInWarn
<1>8. \A b \in Actors : DueAt(b)'
    BY <1>0, <1>1, <1>3, <1>4 DEF DueAt
<1>9. QED
    BY <1>6, <1>7, <1>8 DEF IInv

\* Time passes, or nothing happens.
LEMMA TickKeeps ==
    ASSUME IInv, Tick \/ UNCHANGED diagnosticVars
    PROVE  IInv'
<1>0. Types /\ CountersBalance /\ \A b \in Actors : DueAt(b)
    BY DEF IInv
<1>1. UNCHANGED <<diagnosed, started, completed, dropped, inFlight, totalPolls, lastWarn, step, elapsed, last>>
    BY DEF Tick, diagnosticVars, counters
<1>2. now' \in Nat
    <2>1. now \in Nat
        BY <1>0 DEF Types
    <2>2. now' = now \/ now' = now + 1
        BY DEF Tick, diagnosticVars
    <2>3. QED
        BY <2>1, <2>2
<1>3. Types'
    BY <1>0, <1>1, <1>2 DEF Types
<1>4. CountersBalance'
    BY <1>0, <1>1, BalanceStill
<1>5. \A b \in Actors : DueAt(b)'
    BY <1>0, <1>1 DEF DueAt
<1>6. QED
    BY <1>3, <1>4, <1>5 DEF IInv

\* Nothing is wrapped, counted or warned of yet.
LEMMA IInvInit ==
    ASSUME DiagnosticsInit
    PROVE  IInv
<1>1. Types
    BY DEF DiagnosticsInit, Types, Points
<1>2. \A x \in Children : step[x] = "none"
    BY Constants DEF DiagnosticsInit
<1>3. At(Begun) = 0 /\ At({"live"}) = 0 /\ At(Counted) = 0
    <2>1. /\ {x \in Children : step[x] \in Begun} = {}
          /\ {x \in Children : step[x] \in {"live"}} = {}
          /\ {x \in Children : step[x] \in Counted} = {}
        BY <1>2 DEF Begun, Counted
    <2>2. QED
        BY <2>1, FS_EmptySet DEF At
<1>4. CountersBalance
    BY <1>3 DEF DiagnosticsInit, CountersBalance, Begun, Counted
<1>5. \A a \in Actors : DueAt(a)
    BY Constants DEF DiagnosticsInit, DueAt
<1>6. QED
    BY <1>1, <1>4, <1>5 DEF IInv

\* IInv is an invariant of the specification.
LEMMA DiagnosticsInductive == DiagnosticsSpec => []IInv
<1>1. DiagnosticsInit => IInv
    BY IInvInit
<1>2. IInv /\ [DiagnosticsNext]_diagnosticVars => IInv'
    BY ChildStepKeeps, CountCompletedKeeps, PollCountedKeeps, LoadLastKeeps, ExchangeKeeps, TickKeeps
       DEF DiagnosticsNext, ChildStep
<1>3. QED
    BY <1>1, <1>2, PTL DEF DiagnosticsSpec

\* The counters of ConcurrentDiagnosticState count every wrapped future once, however polls, drops
\* and the atomic operations of mark_finished interleave, and in_flight never goes below zero.
THEOREM CountersCountEveryFutureOnce == DiagnosticsSpec => []CountersBalance
<1>1. IInv => CountersBalance
    BY DEF IInv
<1>2. QED
    BY <1>1, DiagnosticsInductive, PTL

\* Two warnings of one wrapper are at least warn_every apart, though its futures race between the
\* load and the compare_exchange of should_warn with times they read before.
THEOREM WarningsKeepTheirDistance == DiagnosticsSpec => WarningsSpaced
<1>1. ASSUME IInv, [DiagnosticsNext]_diagnosticVars, NEW m \in DOMAIN lastWarn, lastWarn'[m] # lastWarn[m]
      PROVE  lastWarn'[m] >= lastWarn[m] + WarnEvery
    <2>1. PICK a \in Actors : Exchange(a) /\ lastWarn' # lastWarn
        <3>1. lastWarn' # lastWarn
            BY <1>1
        <3>2. QED
            BY <1>1, <3>1 DEF DiagnosticsNext, diagnosticVars, Tick, PollCounted, WrapStarted, WrapInFlight,
                              PollReady, DropFuture, CountDropped, CountCompleted, Measure, LoadLast, Still
    <2>2. Types /\ DueAt(a)
        BY <1>1 DEF IInv
    <2>3. /\ lastWarn[Meter(a)] = last[a] /\ step[a] = "exchange"
          /\ lastWarn' = [lastWarn EXCEPT ![Meter(a)] = elapsed[a]]
        BY <2>1 DEF Exchange, Go
    <2>4. m = Meter(a) /\ lastWarn'[m] = elapsed[a]
        BY <1>1, <2>2, <2>3 DEF Types
    <2>5. elapsed[a] >= last[a] + WarnEvery
        BY <2>2, <2>3 DEF DueAt
    <2>6. QED
        BY <2>3, <2>4, <2>5
<1>2. IInv /\ [DiagnosticsNext]_diagnosticVars =>
        [\A m \in DOMAIN lastWarn : lastWarn'[m] # lastWarn[m] => lastWarn'[m] >= lastWarn[m] + WarnEvery]_diagnosticVars
    BY <1>1
<1>3. QED
    BY <1>2, DiagnosticsInductive, PTL DEF DiagnosticsSpec, WarningsSpaced
-----------------------------------------------------------------------------
(* Lists within lists. *)

Shapes == [Lists -> [Keys -> Members \cup {Vacant}]]

\* Entries, Closed and Reach for any contents c of the lists.
HeldIn(c, l) == {c[l][k] : k \in Keys} \ {Vacant}
ClosedIn(c, S) == \A l \in S \cap Lists : HeldIn(c, l) \subseteq S
ReachIn(c, m) == {e \in Members : \A S \in SUBSET Members : m \in S /\ ClosedIn(c, S) => e \in S}

\* No list has m for an entry; no entry is at two places.
Homeless(c, m) == \A l \in Lists : m \notin HeldIn(c, l)
Unique(c) ==
    \A a, b \in Lists, i, j \in Keys :
        c[a][i] = c[b][j] /\ c[a][i] # Vacant => a = b /\ i = j

\* Vacant is no member, and what a list holds is one.
LEMMA HeldFacts ==
    ASSUME NEW c \in Shapes, NEW l \in Lists
    PROVE  /\ HeldIn(c, l) \subseteq Members /\ Vacant \notin Members
           /\ \A k \in Keys : c[l][k] \in Members \cup {Vacant}
           /\ \A k \in Keys : c[l][k] # Vacant => c[l][k] \in HeldIn(c, l)
           /\ \A e \in HeldIn(c, l) : \E k \in Keys : c[l][k] = e /\ e # Vacant
BY ListAssumption DEF HeldIn, Shapes, Members, ListTasks

\* What m reaches has m and is closed,
LEMMA ReachIsClosed ==
    ASSUME NEW c \in Shapes, NEW m \in Members
    PROVE  m \in ReachIn(c, m) /\ ReachIn(c, m) \subseteq Members /\ ClosedIn(c, ReachIn(c, m))
<1>1. m \in ReachIn(c, m) /\ ReachIn(c, m) \subseteq Members
    BY DEF ReachIn
<1>2. ASSUME NEW l \in ReachIn(c, m) \cap Lists, NEW e \in HeldIn(c, l)
      PROVE  e \in ReachIn(c, m)
    <2>1. e \in Members
        BY HeldFacts
    <2>2. ASSUME NEW S \in SUBSET Members, m \in S, ClosedIn(c, S)
          PROVE  e \in S
        <3>1. l \in S
            BY <2>2 DEF ReachIn
        <3>2. QED
            BY <2>2, <3>1 DEF ClosedIn
    <2>3. QED
        BY <2>1, <2>2 DEF ReachIn
<1>3. QED
    BY <1>1, <1>2 DEF ClosedIn

\* and is the least such set.
LEMMA ReachIsLeast ==
    ASSUME NEW c, NEW m, NEW S \in SUBSET Members, m \in S, ClosedIn(c, S)
    PROVE  ReachIn(c, m) \subseteq S
BY DEF ReachIn

\* All that m reaches but itself is held by something it reaches.
LEMMA ReachHasHolder ==
    ASSUME NEW c \in Shapes, NEW m \in Members, NEW e \in ReachIn(c, m), e # m
    PROVE  \E b \in ReachIn(c, m) \cap Lists : e \in HeldIn(c, b)
<1> DEFINE R == ReachIn(c, m)
           S == {m} \cup {x \in R : \E b \in R \cap Lists : x \in HeldIn(c, b)}
<1>1. m \in R /\ R \subseteq Members /\ ClosedIn(c, R)
    BY ReachIsClosed
<1> HIDE DEF R
<1>2. S \in SUBSET Members /\ m \in S /\ S \subseteq R
    BY <1>1
<1>3. ClosedIn(c, S)
    BY <1>1, <1>2 DEF ClosedIn
<1>4. R \subseteq S
    <2> HIDE DEF S
    <2>1. QED
        BY <1>2, <1>3, ReachIsLeast DEF R
<1>5. QED
    BY <1>4 DEF R

\* A list reaches what its entries reach,
LEMMA EntryReach ==
    ASSUME NEW c \in Shapes, NEW l \in Lists, NEW x \in HeldIn(c, l)
    PROVE  ReachIn(c, x) \subseteq ReachIn(c, l)
<1>1. l \in Members
    BY DEF Members
<1>2. l \in ReachIn(c, l) /\ ReachIn(c, l) \in SUBSET Members /\ ClosedIn(c, ReachIn(c, l))
    BY <1>1, ReachIsClosed
<1>3. x \in ReachIn(c, l)
    BY <1>2 DEF ClosedIn
<1>4. QED
    BY <1>2, <1>3, ReachIsLeast

\* and nothing else but itself.
LEMMA ReachByEntry ==
    ASSUME NEW c \in Shapes, NEW l \in Lists, NEW t \in ReachIn(c, l), t # l
    PROVE  \E x \in HeldIn(c, l) : t \in ReachIn(c, x)
<1> DEFINE S == {l} \cup UNION {ReachIn(c, x) : x \in HeldIn(c, l)}
<1>1. HeldIn(c, l) \subseteq Members /\ l \in Members
    BY HeldFacts DEF Members
<1>2. \A x \in HeldIn(c, l) : /\ x \in ReachIn(c, x) /\ ReachIn(c, x) \subseteq Members
                              /\ ClosedIn(c, ReachIn(c, x))
    BY <1>1, ReachIsClosed
<1>3. S \in SUBSET Members
    BY <1>1, <1>2
<1>4. ASSUME NEW a \in S \cap Lists, NEW e \in HeldIn(c, a)
      PROVE  e \in S
    <2>1. CASE a = l
        BY <1>2, <1>4, <2>1
    <2>2. CASE a # l
        <3>1. PICK x \in HeldIn(c, l) : a \in ReachIn(c, x)
            BY <2>2
        <3>2. e \in ReachIn(c, x)
            BY <1>2, <1>4, <3>1 DEF ClosedIn
        <3>3. QED
            BY <3>2
    <2>3. QED
        BY <2>1, <2>2
<1>5. ClosedIn(c, S)
    BY <1>4 DEF ClosedIn
<1>6. ReachIn(c, l) \subseteq S
    <2>1. l \in S
        OBVIOUS
    <2> HIDE DEF S
    <2>2. QED
        BY <1>3, <1>5, <2>1, ReachIsLeast
<1>7. QED
    BY <1>6

\* A task reaches itself only.
LEMMA TaskReach ==
    ASSUME NEW c \in Shapes, NEW t \in ListTasks
    PROVE  t \in Members /\ ReachIn(c, t) = {t}
<1>1. t \in Members /\ t \notin Lists
    BY ListAssumption DEF Members, ListTasks
<1>2. {t} \in SUBSET Members /\ ClosedIn(c, {t})
    BY <1>1 DEF ClosedIn
<1>3. ReachIn(c, t) \subseteq {t}
    BY <1>2, ReachIsLeast
<1>4. QED
    BY <1>1, <1>3, ReachIsClosed

\* What nothing holds is reached from itself only.
LEMMA HomelessIsRoot ==
    ASSUME NEW c \in Shapes, NEW o \in Members, Homeless(c, o), NEW y \in Members, y # o
    PROVE  o \notin ReachIn(c, y)
<1> DEFINE S == Members \ {o}
<1>1. \A l \in Lists : HeldIn(c, l) \subseteq Members
    BY HeldFacts
<1>2. S \in SUBSET Members /\ y \in S /\ ClosedIn(c, S)
    BY <1>1 DEF ClosedIn, Homeless
<1>3. ReachIn(c, y) \subseteq S
    <2> HIDE DEF S
    <2>1. QED
        BY <1>2, ReachIsLeast
<1>4. QED
    BY <1>3

\* A change of lists that y does not reach leaves what it reaches.
LEMMA ReachFrame ==
    ASSUME NEW c \in Shapes, NEW d \in Shapes, NEW y \in Members,
           \A l \in ReachIn(c, y) \cap Lists : d[l] = c[l]
    PROVE  ReachIn(d, y) = ReachIn(c, y)
<1> DEFINE C == ReachIn(c, y)
           D == ReachIn(d, y)
<1>1. y \in C /\ C \subseteq Members /\ ClosedIn(c, C)
    BY ReachIsClosed
<1>2. y \in D /\ D \subseteq Members /\ ClosedIn(d, D)
    BY ReachIsClosed
<1>3. \A l \in C \cap Lists : HeldIn(d, l) = HeldIn(c, l)
    BY DEF HeldIn
<1> HIDE DEF C, D
<1>4. ClosedIn(d, C)
    BY <1>1, <1>3 DEF ClosedIn
<1>5. D \subseteq C
    BY <1>1, <1>4, ReachIsLeast DEF D
<1>6. ClosedIn(c, C \cap D) /\ y \in C \cap D /\ C \cap D \in SUBSET Members
    BY <1>1, <1>2, <1>3 DEF ClosedIn
<1>7. C \subseteq C \cap D
    <2> DEFINE S == C \cap D
    <2> HIDE DEF S
    <2>1. ClosedIn(c, S) /\ y \in S /\ S \in SUBSET Members
        BY <1>6 DEF S
    <2>2. C \subseteq S
        BY <2>1, ReachIsLeast DEF C
    <2>3. QED
        BY <2>2 DEF S
<1>8. QED
    BY <1>5, <1>7 DEF C, D

\* Two members that nothing holds have nothing in common.
LEMMA RootsAreDisjoint ==
    ASSUME NEW c \in Shapes, Unique(c), NEW x \in Members, NEW o \in Members, x # o,
           Homeless(c, x), Homeless(c, o)
    PROVE  ReachIn(c, x) \cap ReachIn(c, o) = {}
<1> DEFINE X == ReachIn(c, x)
           O == ReachIn(c, o)
           S == O \ X
<1>1. X \subseteq Members /\ ClosedIn(c, X) /\ O \subseteq Members /\ ClosedIn(c, O) /\ o \in O
    BY ReachIsClosed
<1>2. o \notin X
    BY HomelessIsRoot
<1>3. \A e \in X : e # x => \E b \in X \cap Lists : e \in HeldIn(c, b)
    BY ReachHasHolder
<1> HIDE DEF X, O
<1>4. ASSUME NEW a \in S \cap Lists, NEW e \in HeldIn(c, a)
      PROVE  e \in S
    <2>1. e \in O
        BY <1>1, <1>4 DEF ClosedIn
    <2>2. e # x
        BY <1>4 DEF Homeless
    <2>3. e \notin X
        <3> SUFFICES ASSUME e \in X PROVE FALSE
            OBVIOUS
        <3>1. PICK b \in X \cap Lists : e \in HeldIn(c, b)
            BY <1>3, <2>2
        <3>2. \E i \in Keys : c[a][i] = e /\ e # Vacant
            BY <1>4, HeldFacts
        <3>3. \E j \in Keys : c[b][j] = e
            BY <3>1, HeldFacts
        <3>4. a = b
            BY <3>1, <3>2, <3>3 DEF Unique
        <3>5. QED
            BY <3>1, <3>4
    <2>4. QED
        BY <2>1, <2>3
<1>5. ClosedIn(c, S) /\ o \in S /\ S \in SUBSET Members
    BY <1>1, <1>2, <1>4 DEF ClosedIn
<1>6. O \subseteq S
    <2> HIDE DEF S
    <2>1. QED
        BY <1>5, ReachIsLeast DEF O
<1>7. QED
    BY <1>6 DEF X, O
-----------------------------------------------------------------------------
(* The invariant: a tree below every list that has an owner. *)

ListTypes ==
    /\ content \in Shapes
    /\ owned \subseteq Lists
    /\ handed \subseteq ListTasks /\ aborting \subseteq ListTasks /\ taskEnded \subseteq ListTasks

\* No list holds what the program still has in its own hands.
Roots == \A m \in owned \cup (ListTasks \ handed) : Homeless(content, m)

ListInv == ListTypes /\ Unique(content) /\ Roots

\* Reach and Leaves are ReachIn of the contents.
LEMMA ReachNow ==
    ASSUME NEW m
    PROVE  /\ Reach(m) = ReachIn(content, m) /\ Leaves(m) = ReachIn(content, m) \cap ListTasks
           /\ Leaves(m)' = ReachIn(content', m) \cap ListTasks
BY DEF Reach, Leaves, ReachIn, Closed, ClosedIn, Entries, HeldIn

\* abort_task reaches every task below a member that has not stopped, and no other.
LEMMA AbortEffect ==
    ASSUME ListTypes, NEW M \in SUBSET Members, Abort(M)
    PROVE  /\ aborting \subseteq aborting' /\ aborting' \subseteq ListTasks
           /\ \A t \in aborting' \ aborting : \E x \in M : t \in ReachIn(content, x)
           /\ \A x \in M, t \in ListTasks : t \in ReachIn(content, x) => t \in aborting' \cup taskEnded
<1>1. content \in Shapes
    BY DEF ListTypes
<1>2. ASSUME NEW t \in ListTasks
      PROVE  WasAborted(t) <=> IF t \in AbortTasks THEN t \in aborting ELSE t \in taskEnded
    <2>1. Leaves(t) = {t}
        BY <1>1, ReachNow, TaskReach
    <2>2. QED
        BY <2>1 DEF WasAborted
<1>3. ASSUME NEW x \in M
      PROVE  /\ CalledBy(x) \subseteq ReachIn(content, x) \cap ListTasks
             /\ \A t \in ListTasks : t \in ReachIn(content, x) => t \in CalledBy(x) \cup aborting \cup taskEnded
    <2>1. CASE x \in ListTasks
        BY <1>1, <2>1, TaskReach DEF CalledBy
    <2>2. CASE x \notin ListTasks
        <3>1. CalledBy(x) = {t \in ReachIn(content, x) \cap ListTasks : ~WasAborted(t)}
            BY <2>2, ReachNow DEF CalledBy
        <3>2. QED
            BY <1>2, <3>1
    <2>3. QED
        BY <2>1, <2>2
<1>4. aborting' = aborting \cup UNION {CalledBy(x) : x \in M}
    BY DEF Abort
<1>5. QED
    BY <1>3, <1>4 DEF ListTypes

-----------------------------------------------------------------------------
(* A step changes lists X and lets go of members A. *)

Moves(X, A) ==
    /\ X \subseteq owned /\ owned' \subseteq owned
    /\ \A l \in Lists \ X : content'[l] = content[l]
    /\ \A x \in A : x \notin owned' /\ Homeless(content', x) /\ \E z \in X : x \in HeldIn(content, z)
    /\ \A z \in X : \A y \in HeldIn(content, z) : y \in A \/ \E q \in owned' : y \in HeldIn(content', q)
    /\ \A o \in owned \ X : o \in owned' \/ \E q \in owned' : o \in HeldIn(content', q)
    /\ \A t \in handed' : t \in handed \/ \E q \in owned' : t \in HeldIn(content', q)
    /\ taskEnded' = taskEnded /\ aborting \subseteq aborting'
    /\ \A t \in aborting' \ aborting : \E x \in A : t \in ReachIn(content, x)
    /\ \A x \in A, t \in ListTasks : t \in ReachIn(content, x) => t \in aborting' \cup taskEnded

\* What the lists of such a step held reaches the same as before.
LEMMA MovesFrame ==
    ASSUME ListInv, content' \in Shapes, NEW X, NEW A, Moves(X, A), NEW y \in Members, y \notin X
    PROVE  ReachIn(content', y) = ReachIn(content, y)
<1>1. content \in Shapes /\ content' \in Shapes /\ X \subseteq Lists
    BY DEF ListInv, ListTypes, Moves
<1>2. ASSUME NEW l \in ReachIn(content, y) \cap Lists
      PROVE  content'[l] = content[l]
    <2>1. l \notin X
        <3> SUFFICES ASSUME l \in X PROVE FALSE
            OBVIOUS
        <3>1. Homeless(content, l) /\ l \in Members /\ l # y
            BY DEF ListInv, Roots, Moves, Members
        <3>2. QED
            BY <1>1, <3>1, HomelessIsRoot
    <2>2. QED
        BY <2>1 DEF Moves
<1>3. QED
    BY <1>1, <1>2, ReachFrame

\* What an owned list holds is no owned list.
LEMMA HeldIsNotOwned ==
    ASSUME ListInv, NEW z \in owned, NEW y \in HeldIn(content, z)
    PROVE  y \in Members /\ y \notin owned
<1>1. z \in Lists /\ content \in Shapes
    BY DEF ListInv, ListTypes
<1>2. QED
    BY <1>1, HeldFacts DEF ListInv, Roots, Homeless

\* Every task stays within reach or is stopped.
LEMMA MovesKeepTasks ==
    ASSUME ListInv, ListInv', NoRunaway, NEW X, NEW A, Moves(X, A)
    PROVE  NoRunaway'
<1>0. content \in Shapes /\ content' \in Shapes /\ owned \subseteq Lists /\ owned' \subseteq Lists
      /\ handed' \subseteq ListTasks /\ X \subseteq owned
    BY DEF ListInv, ListTypes, Moves
<1> SUFFICES ASSUME NEW t \in handed', t \notin aborting' \cup taskEnded
             PROVE  \E l \in owned' : t \in ReachIn(content', l)
    BY <1>0, ReachNow DEF NoRunaway, Moves
<1>1. t \in ListTasks /\ t \in Members /\ t \notin Lists
    BY <1>0, ListAssumption DEF ListTasks, Members
<1>2. ASSUME NEW q \in owned', NEW y \in HeldIn(content', q), t \in ReachIn(content', y)
      PROVE  t \in ReachIn(content', q)
    BY <1>0, <1>2, EntryReach
<1>3. CASE t \notin handed
    <2>1. PICK q \in owned' : t \in HeldIn(content', q)
        BY <1>3 DEF Moves
    <2>2. t \in ReachIn(content', t)
        BY <1>0, <1>1, ReachIsClosed
    <2>3. QED
        BY <1>2, <2>1, <2>2
<1>4. CASE t \in handed
    <2>1. t \notin aborting \cup taskEnded
        BY DEF Moves
    <2>2. PICK o \in owned : t \in ReachIn(content, o)
        BY <1>4, <2>1, ReachNow DEF NoRunaway
    <2>3. CASE o \in X
        <3>1. t # o /\ o \in Lists
            BY <1>0, <1>1
        <3>2. PICK y \in HeldIn(content, o) : t \in ReachIn(content, y)
            BY <1>0, <2>2, <3>1, ReachByEntry
        <3>3. y \in Members /\ y \notin X
            BY <1>0, HeldIsNotOwned
        <3>4. t \in ReachIn(content', y)
            BY <1>0, <3>2, <3>3, MovesFrame
        <3>5. y \notin A
            BY <1>1, <3>2 DEF Moves
        <3>6. PICK q \in owned' : y \in HeldIn(content', q)
            BY <2>3, <3>5 DEF Moves
        <3>7. QED
            BY <1>2, <3>4, <3>6
    <2>4. CASE o \notin X
        <3>1. o \in Members
            BY <1>0 DEF Members
        <3>2. t \in ReachIn(content', o)
            BY <1>0, <2>2, <2>4, <3>1, MovesFrame
        <3>3. o \in owned' \/ \E q \in owned' : o \in HeldIn(content', q)
            BY <2>4 DEF Moves
        <3>4. QED
            BY <1>2, <3>2, <3>3
    <2>5. QED
        BY <2>3, <2>4
<1>5. QED
    BY <1>3, <1>4

\* What is told to abort has left every list that has an owner.
LEMMA MovesAbortNoOther ==
    ASSUME ListInv, ListInv', NEW X, NEW A, Moves(X, A),
           NEW t \in aborting' \ aborting, NEW l \in owned'
    PROVE  t \notin Leaves(l)'
<1>0. content \in Shapes /\ content' \in Shapes /\ owned \subseteq Lists /\ owned' \subseteq Lists
      /\ X \subseteq owned /\ Unique(content') /\ Homeless(content', l) /\ l \in Members
    BY DEF ListInv, ListTypes, Moves, Roots, Members
<1>1. PICK x \in A : t \in ReachIn(content, x)
    BY DEF Moves
<1>2. PICK z \in X : x \in HeldIn(content, z)
    BY DEF Moves
<1>3. x \in Members /\ x \notin X
    BY <1>0, <1>2, HeldIsNotOwned
<1>4. t \in ReachIn(content', x)
    BY <1>0, <1>1, <1>3, MovesFrame
<1>5. x # l /\ Homeless(content', x)
    BY DEF Moves
<1>6. t \notin ReachIn(content', l)
    BY <1>0, <1>3, <1>4, <1>5, RootsAreDisjoint
<1>7. QED
    BY <1>6, ReachNow
-----------------------------------------------------------------------------
(* The steps. *)

\* A member is homeless when it is at no place.
LEMMA HomelessAt ==
    ASSUME NEW c, NEW e \in Members
    PROVE  Homeless(c, e) <=> \A a \in Lists, i \in Keys : c[a][i] # e
BY ListAssumption DEF Homeless, HeldIn, Members, ListTasks

\* Replacing one entry.
IsPut(c, l, k, v, d) == d = [c EXCEPT ![l][k] = v]

\* Replacing an entry leaves every other entry of every list as it was.
LEMMA PutEffect ==
    ASSUME NEW c \in Shapes, NEW l \in Lists, NEW k \in Keys, NEW v \in Members \cup {Vacant}, NEW d,
           IsPut(c, l, k, v, d)
    PROVE  /\ d \in Shapes /\ \A a \in Lists \ {l} : d[a] = c[a]
           /\ \A a \in Lists, i \in Keys : d[a][i] = IF a = l /\ i = k THEN v ELSE c[a][i]
BY DEF IsPut, Shapes

\* What stays is at the places where it was.
LEMMA PutKeepsUnique ==
    ASSUME NEW c \in Shapes, NEW l \in Lists, NEW k \in Keys, NEW v \in Members \cup {Vacant}, NEW d,
           IsPut(c, l, k, v, d), Unique(c), v # Vacant => Homeless(c, v)
    PROVE  /\ Unique(d)
           /\ \A e \in Members : Homeless(c, e) /\ e # v => Homeless(d, e)
           /\ c[l][k] # Vacant => c[l][k] \in Members /\ Homeless(d, c[l][k])
           /\ \A y \in HeldIn(c, l) : y = c[l][k] \/ y \in HeldIn(d, l)
           /\ v # Vacant => v \in HeldIn(d, l)
<1>0. Vacant \notin Members
    BY ListAssumption DEF Members, ListTasks
<1>1. \A a \in Lists, i \in Keys : d[a][i] = IF a = l /\ i = k THEN v ELSE c[a][i]
    BY PutEffect
<1>2. v # Vacant => \A a \in Lists, i \in Keys : c[a][i] # v
    BY HomelessAt
<1>3. Unique(d)
    BY <1>1, <1>2 DEF Unique
<1>4. ASSUME NEW e \in Members, Homeless(c, e), e # v
      PROVE  Homeless(d, e)
    BY <1>1, <1>4, HomelessAt
<1>5. ASSUME c[l][k] # Vacant
      PROVE  c[l][k] \in Members /\ Homeless(d, c[l][k])
    <2>1. c[l][k] \in Members
        BY <1>5 DEF Shapes
    <2>2. \A a \in Lists, i \in Keys : d[a][i] # c[l][k]
        BY <1>1, <1>2, <1>5 DEF Unique
    <2>3. QED
        BY <2>1, <2>2, HomelessAt
<1>6. \A y \in HeldIn(c, l) : y = c[l][k] \/ y \in HeldIn(d, l)
    BY <1>1 DEF HeldIn
<1>7. v # Vacant => v \in HeldIn(d, l)
    BY <1>1 DEF HeldIn
<1>8. QED
    BY <1>3, <1>4, <1>5, <1>6, <1>7

\* insert moves its member below l and lets go of what had the key.
LEMMA InsertMoves ==
    ASSUME ListInv, NEW l \in Lists, NEW k \in Keys, NEW m \in Members, Insert(l, k, m)
    PROVE  ListInv' /\ Moves({l}, {content[l][k]} \ {Vacant})
<1> DEFINE A == {content[l][k]} \ {Vacant}
<1>0. content \in Shapes /\ ListTasks \cap Lists = {} /\ Vacant \notin Members /\ owned \subseteq Lists
    BY ListAssumption DEF ListInv, ListTypes, ListTasks, Members
<1>1. /\ l \in owned /\ IsPut(content, l, k, m, content') /\ Abort(A)
      /\ owned' = owned \ {m} /\ handed' = handed \cup ({m} \cap ListTasks) /\ taskEnded' = taskEnded
    BY DEF Insert, IsPut
<1>2. Homeless(content, m) /\ l # m /\ m # Vacant
    BY <1>0 DEF Insert, Movable, Members, ListInv, Roots
<1>3. /\ Unique(content') /\ \A e \in Members : Homeless(content, e) /\ e # m => Homeless(content', e)
      /\ \A x \in A : x \in Members /\ Homeless(content', x)
      /\ \A y \in HeldIn(content, l) : y \in A \/ y \in HeldIn(content', l)
      /\ m \in HeldIn(content', l)
    BY <1>0, <1>1, <1>2, PutKeepsUnique DEF ListInv, HeldIn
<1>4. content' \in Shapes /\ \A a \in Lists \ {l} : content'[a] = content[a]
    BY <1>0, <1>1, PutEffect
<1>5. /\ aborting \subseteq aborting' /\ aborting' \subseteq ListTasks
      /\ \A t \in aborting' \ aborting : \E x \in A : t \in ReachIn(content, x)
      /\ \A x \in A, t \in ListTasks : t \in ReachIn(content, x) => t \in aborting' \cup taskEnded
    <2>1. A \in SUBSET Members
        BY <1>3
    <2> HIDE DEF A
    <2>2. QED
        BY <1>1, <2>1, AbortEffect DEF ListInv
<1>6. ListTypes'
    BY <1>1, <1>4, <1>5 DEF ListInv, ListTypes
<1>7. Roots'
    BY <1>0, <1>1, <1>3 DEF ListInv, Roots, Members
<1>8. \A x \in A : x \in HeldIn(content, l) /\ x \notin owned'
    <2>1. \A x \in A : x \in HeldIn(content, l)
        BY DEF HeldIn
    <2>2. QED
        BY <1>1, <2>1, HeldIsNotOwned
<1>9. Moves({l}, A)
    <2>1. l \in owned'
        BY <1>1, <1>2
    <2> HIDE DEF A
    <2>2. \A o \in owned \ {l} : o \in owned' \/ \E q \in owned' : o \in HeldIn(content', q)
        BY <1>1, <1>3, <2>1
    <2>3. \A t \in handed' : t \in handed \/ \E q \in owned' : t \in HeldIn(content', q)
        BY <1>1, <1>3, <2>1
    <2>4. QED
        BY <1>1, <1>3, <1>4, <1>5, <1>8, <2>1, <2>2, <2>3 DEF Moves
<1>10. QED
    BY <1>3, <1>6, <1>7, <1>9 DEF ListInv

\* abort_one lets go of the entry.
LEMMA AbortOneMoves ==
    ASSUME ListInv, NEW l \in Lists, NEW k \in Keys, AbortOne(l, k)
    PROVE  ListInv' /\ Moves({l}, {content[l][k]})
<1> DEFINE e == content[l][k]
           M == {e} \ {m \in Members : WasAborted(m)}
<1>0. content \in Shapes /\ Vacant \notin Members /\ owned \subseteq Lists
    BY ListAssumption DEF ListInv, ListTypes, ListTasks, Members
<1>1. /\ l \in owned /\ e # Vacant /\ IsPut(content, l, k, Vacant, content') /\ Abort(M)
      /\ owned' = owned /\ handed' = handed /\ taskEnded' = taskEnded
    BY DEF AbortOne, IsPut
<1>3. /\ Unique(content') /\ \A x \in Members : Homeless(content, x) => Homeless(content', x)
      /\ e \in Members /\ Homeless(content', e)
      /\ \A y \in HeldIn(content, l) : y = e \/ y \in HeldIn(content', l)
    BY <1>0, <1>1, PutKeepsUnique DEF ListInv
<1>4. content' \in Shapes /\ \A a \in Lists \ {l} : content'[a] = content[a]
    BY <1>0, <1>1, PutEffect
<1>5. e \in HeldIn(content, l) /\ e \notin owned'
    <2>1. e \in HeldIn(content, l)
        BY <1>1 DEF HeldIn
    <2>2. QED
        BY <1>1, <2>1, HeldIsNotOwned
<1> HIDE DEF e
<1>6. /\ aborting \subseteq aborting' /\ aborting' \subseteq ListTasks
      /\ \A t \in aborting' \ aborting : t \in ReachIn(content, e)
      /\ \A t \in ListTasks : t \in ReachIn(content, e) => t \in aborting' \cup taskEnded
    <2>1. M \in SUBSET Members
        BY <1>3
    <2>2. /\ aborting \subseteq aborting' /\ aborting' \subseteq ListTasks
          /\ \A t \in aborting' \ aborting : \E x \in M : t \in ReachIn(content, x)
          /\ \A x \in M, t \in ListTasks : t \in ReachIn(content, x) => t \in aborting' \cup taskEnded
        <3> HIDE DEF M
        <3>1. QED
            BY <1>1, <2>1, AbortEffect DEF ListInv
    <2>3. WasAborted(e) => \A t \in ListTasks : t \in ReachIn(content, e) => t \in aborting \cup taskEnded
        BY ReachNow DEF WasAborted
    <2>4. QED
        BY <1>3, <2>2, <2>3
<1>7. ListTypes'
    BY <1>1, <1>4, <1>6 DEF ListInv, ListTypes
<1>8. Roots'
    BY <1>0, <1>1, <1>3 DEF ListInv, Roots, Members
<1>9. Moves({l}, {e})
    BY <1>1, <1>3, <1>4, <1>5, <1>6 DEF Moves
<1>10. QED
    BY <1>3, <1>7, <1>8, <1>9 DEF ListInv, e

\* Dropping a list lets go of all its entries.
LEMMA DropListMoves ==
    ASSUME ListInv, NEW l \in Lists, DropList(l)
    PROVE  ListInv' /\ Moves({l}, HeldIn(content, l))
<1> DEFINE A == HeldIn(content, l)
<1>0. content \in Shapes /\ Vacant \notin Members /\ owned \subseteq Lists /\ l \in Members
    BY ListAssumption DEF ListInv, ListTypes, ListTasks, Members
<1>1. /\ l \in owned /\ content' = [content EXCEPT ![l] = NoEntries] /\ Abort({l})
      /\ owned' = owned \ {l} /\ handed' = handed /\ taskEnded' = taskEnded
    BY DEF DropList
<1>2. /\ content' \in Shapes /\ \A a \in Lists \ {l} : content'[a] = content[a]
      /\ \A a \in Lists, i \in Keys : content'[a][i] = IF a = l THEN Vacant ELSE content[a][i]
    BY <1>0, <1>1 DEF Shapes, NoEntries
<1>3. Unique(content') /\ \A x \in Members : Homeless(content, x) => Homeless(content', x)
    BY <1>0, <1>2, HomelessAt DEF ListInv, Unique
<1>4. ASSUME NEW x \in A
      PROVE  x \in Members /\ x \notin owned /\ Homeless(content', x)
    <2>1. x \in Members /\ x \notin owned
        BY <1>1, HeldIsNotOwned
    <2>2. PICK k \in Keys : content[l][k] = x /\ x # Vacant
        BY <1>0, HeldFacts
    <2>3. \A a \in Lists, i \in Keys : content'[a][i] # x
        BY <1>2, <2>2 DEF ListInv, Unique
    <2>4. QED
        BY <2>1, <2>3, HomelessAt
<1>5. /\ aborting \subseteq aborting' /\ aborting' \subseteq ListTasks
      /\ \A t \in aborting' \ aborting : t \in ReachIn(content, l)
      /\ \A t \in ListTasks : t \in ReachIn(content, l) => t \in aborting' \cup taskEnded
    <2>1. {l} \in SUBSET Members
        BY <1>0
    <2>2. QED
        BY <1>1, <2>1, AbortEffect DEF ListInv
<1>6. \A t \in aborting' \ aborting : \E x \in A : t \in ReachIn(content, x)
    <2>1. \A t \in aborting' \ aborting : t # l
        BY <1>5, ListAssumption DEF ListTasks
    <2>2. QED
        BY <1>0, <1>5, <2>1, ReachByEntry
<1>7. \A x \in A, t \in ListTasks : t \in ReachIn(content, x) => t \in aborting' \cup taskEnded
    BY <1>0, <1>5, EntryReach
<1> HIDE DEF A
<1>8. ListTypes'
    BY <1>1, <1>2, <1>5 DEF ListInv, ListTypes
<1>9. Roots'
    BY <1>0, <1>1, <1>3 DEF ListInv, Roots, Members
<1>10. Moves({l}, A)
    <2>1. \A z \in {l} : \A y \in HeldIn(content, z) : y \in A
        BY DEF A
    <2>2. \A x \in A : \E z \in {l} : x \in HeldIn(content, z)
        BY DEF A
    <2>3. QED
        BY <1>1, <1>2, <1>4, <1>5, <1>6, <1>7, <2>1, <2>2 DEF Moves
<1>11. QED
    BY <1>3, <1>8, <1>9, <1>10 DEF ListInv, A

\* Where the entries are after extend_from: at a key of taken what other had at its newest.
Merged(c, d, l, other, taken, newest) ==
    \A a \in Lists, i \in Keys :
        d[a][i] = IF a = other THEN Vacant
                  ELSE IF a = l /\ i \in taken THEN c[other][newest[i]] ELSE c[a][i]

\* extend_from and flat_map_extend_from let go of what the merged list has no place for.
LEMMA ExtendFromMoves ==
    ASSUME ListInv, NEW l \in Lists, NEW other \in Lists, NEW keyMap \in [Keys -> Keys],
           ExtendFrom(l, other, keyMap)
    PROVE  ListInv' /\ \E A : Moves({l, other}, A)
<1> DEFINE from(k) == {j \in Keys : content[other][j] # Vacant /\ keyMap[j] = k}
           taken == {k \in Keys : from(k) # {}}
<1>0. content \in Shapes /\ Vacant \notin Members /\ owned \subseteq Lists /\ Unique(content)
    BY ListAssumption DEF ListInv, ListTypes, ListTasks, Members
<1>1. /\ l \in owned /\ other \in owned /\ l # other
      /\ owned' = owned \ {other} /\ handed' = handed /\ taskEnded' = taskEnded
    BY DEF ExtendFrom
<1>2. PICK newest \in [taken -> Keys] :
          /\ \A k \in taken : newest[k] \in from(k)
          /\ content' = [content EXCEPT
                 ![l] = [k \in Keys |-> IF k \in taken THEN content[other][newest[k]] ELSE @[k]],
                 ![other] = NoEntries]
          /\ Abort((Entries(other) \cup {content[l][k] : k \in taken})
                     \ ({content[other][newest[k]] : k \in taken} \cup {Vacant}))
    BY DEF ExtendFrom
<1> DEFINE A == (HeldIn(content, other) \cup {content[l][k] : k \in taken})
                   \ ({content[other][newest[k]] : k \in taken} \cup {Vacant})
<1>3. taken \subseteq Keys /\ \A k \in taken : newest[k] \in Keys /\ keyMap[newest[k]] = k
                                           /\ content[other][newest[k]] # Vacant
    BY <1>2
<1>4. Abort(A)
    BY <1>2 DEF Entries, HeldIn
<1> HIDE DEF taken
<1>5. /\ content' \in Shapes /\ \A a \in Lists \ {l, other} : content'[a] = content[a]
      /\ Merged(content, content', l, other, taken, newest)
    <2> DEFINE w == [k \in Keys |-> IF k \in taken THEN content[other][newest[k]] ELSE content[l][k]]
    <2>1. w \in [Keys -> Members \cup {Vacant}] /\ NoEntries \in [Keys -> Members \cup {Vacant}]
        BY <1>0, <1>3 DEF Shapes, NoEntries
    <2>2. content' = [content EXCEPT ![l] = w, ![other] = NoEntries]
        BY <1>0, <1>1, <1>2 DEF Shapes
    <2>3. \A i \in Keys : w[i] = IF i \in taken THEN content[other][newest[i]] ELSE content[l][i]
        OBVIOUS
    <2> HIDE DEF w
    <2>4. content' \in Shapes /\ \A a \in Lists : content'[a] = IF a = other THEN NoEntries
                                                               ELSE IF a = l THEN w ELSE content[a]
        BY <1>0, <1>1, <2>1, <2>2 DEF Shapes
    <2>5. QED
        BY <2>3, <2>4 DEF Merged, NoEntries
<1>6. Unique(content')
    <2> SUFFICES ASSUME NEW a \in Lists, NEW b \in Lists, NEW i \in Keys, NEW j \in Keys,
                        content'[a][i] = content'[b][j], content'[a][i] # Vacant
                 PROVE  a = b /\ i = j
        BY DEF Unique
    <2>1. a # other /\ b # other
        BY <1>5 DEF Merged
    <2>2. CASE (a = l /\ i \in taken) /\ (b = l /\ j \in taken)
        <3>1. content[other][newest[i]] = content[other][newest[j]] /\ content[other][newest[i]] # Vacant
            BY <1>5, <2>1, <2>2 DEF Merged
        <3>2. newest[i] = newest[j]
            BY <1>0, <1>3, <2>2, <3>1 DEF Unique
        <3>3. QED
            BY <1>3, <2>2, <3>2
    <2>3. CASE (a = l /\ i \in taken) /\ ~(b = l /\ j \in taken)
        <3>1. content[other][newest[i]] = content[b][j] /\ content[other][newest[i]] # Vacant
            BY <1>5, <2>1, <2>3 DEF Merged
        <3>2. QED
            BY <1>0, <1>3, <2>1, <2>3, <3>1 DEF Unique
    <2>4. CASE ~(a = l /\ i \in taken) /\ (b = l /\ j \in taken)
        <3>1. content[other][newest[j]] = content[a][i] /\ content[other][newest[j]] # Vacant
            BY <1>5, <2>1, <2>4 DEF Merged
        <3>2. QED
            BY <1>0, <1>3, <2>1, <2>4, <3>1 DEF Unique
    <2>5. CASE ~(a = l /\ i \in taken) /\ ~(b = l /\ j \in taken)
        <3>1. content[a][i] = content[b][j] /\ content[a][i] # Vacant
            BY <1>5, <2>1, <2>5 DEF Merged
        <3>2. QED
            BY <1>0, <3>1 DEF Unique
    <2>6. QED
        BY <2>2, <2>3, <2>4, <2>5
<1>7. \A x \in Members : Homeless(content, x) => Homeless(content', x)
    <2> SUFFICES ASSUME NEW x \in Members, \A a \in Lists, i \in Keys : content[a][i] # x
                 PROVE  \A a \in Lists, i \in Keys : content'[a][i] # x
        BY HomelessAt
    <2>1. QED
        BY <1>0, <1>3, <1>5 DEF Merged
<1>8. ASSUME NEW x \in A
      PROVE  /\ x \in Members /\ x \notin owned' /\ Homeless(content', x)
             /\ \E z \in {l, other} : x \in HeldIn(content, z)
    <2>1. x # Vacant /\ \A k \in taken : content[other][newest[k]] # x
        OBVIOUS
    <2>2. \/ \E j \in Keys : content[other][j] = x
          \/ \E k \in taken : content[l][k] = x
        BY HeldFacts, <1>0
    <2>3. \E z \in {l, other} : x \in HeldIn(content, z)
        BY <1>3, <2>1, <2>2 DEF HeldIn
    <2>4. x \in Members /\ x \notin owned'
        BY <1>1, <2>3, HeldIsNotOwned
    <2>5. ASSUME NEW a \in Lists, NEW i \in Keys, content'[a][i] = x
          PROVE  FALSE
        <3>1. a # other /\ ~(a = l /\ i \in taken)
            BY <1>5, <2>1, <2>5 DEF Merged
        <3>2. content[a][i] = x
            BY <1>5, <2>5, <3>1 DEF Merged
        <3>3. CASE \E j \in Keys : content[other][j] = x
            BY <1>0, <2>1, <3>1, <3>2, <3>3 DEF Unique
        <3>4. CASE \E k \in taken : content[l][k] = x
            BY <1>0, <1>3, <2>1, <3>1, <3>2, <3>4 DEF Unique
        <3>5. QED
            BY <2>2, <3>3, <3>4
    <2>6. QED
        BY <2>3, <2>4, <2>5, HomelessAt
<1>9. ASSUME NEW z \in {l, other}, NEW y \in HeldIn(content, z)
      PROVE  y \in A \/ y \in HeldIn(content', l)
    <2>1. PICK k \in Keys : content[z][k] = y /\ y # Vacant
        BY <1>0, <1>9, HeldFacts
    <2>2. CASE \E i \in taken : content[other][newest[i]] = y
        <3>1. PICK i \in taken : content[other][newest[i]] = y
            BY <2>2
        <3>2. content'[l][i] = y /\ i \in Keys
            BY <1>1, <1>3, <1>5, <3>1 DEF Merged
        <3>3. QED
            BY <2>1, <3>2 DEF HeldIn
    <2>3. CASE ~(\E i \in taken : content[other][newest[i]] = y) /\ (z = other \/ k \in taken)
        <3>1. y \in HeldIn(content, other) \cup {content[l][i] : i \in taken}
            BY <1>9, <2>1, <2>3
        <3>2. QED
            BY <2>1, <2>3, <3>1
    <2>4. CASE z # other /\ k \notin taken
        <3>1. content'[l][k] = y
            BY <1>1, <1>5, <2>1, <2>4 DEF Merged
        <3>2. QED
            BY <2>1, <3>1 DEF HeldIn
    <2>5. QED
        BY <2>2, <2>3, <2>4
<1>10. /\ aborting \subseteq aborting' /\ aborting' \subseteq ListTasks
       /\ \A t \in aborting' \ aborting : \E x \in A : t \in ReachIn(content, x)
       /\ \A x \in A, t \in ListTasks : t \in ReachIn(content, x) => t \in aborting' \cup taskEnded
    <2>1. A \in SUBSET Members
        BY <1>8
    <2> HIDE DEF A
    <2>2. QED
        BY <1>4, <2>1, AbortEffect DEF ListInv
<1> HIDE DEF A
<1>11. ListTypes'
    BY <1>1, <1>5, <1>10 DEF ListInv, ListTypes
<1>12. Roots'
    BY <1>0, <1>1, <1>7 DEF ListInv, Roots, Members
<1>13. Moves({l, other}, A)
    <2>1. l \in owned' /\ {l, other} \subseteq owned
        BY <1>1
    <2>2. QED
        BY <1>1, <1>5, <1>8, <1>9, <1>10, <2>1 DEF Moves
<1>14. QED
    BY <1>6, <1>11, <1>12, <1>13 DEF ListInv

-----------------------------------------------------------------------------
(* The theorems. *)

\* What one step may not do to a task.
Innocent ==
    \A t \in aborting' \ aborting, l \in owned' :
        t \in Leaves(l)' => /\ UNCHANGED <<content, owned>>
                           /\ Leaves(l)' \subseteq aborting' \cup taskEnded

\* The steps that change no list.
LEMMA AbortAllStep ==
    ASSUME ListInv, NEW l \in Lists, AbortAll(l)
    PROVE  ListInv' /\ Innocent /\ (NoRunaway => NoRunaway')
<1>0. content \in Shapes /\ owned \subseteq Lists /\ l \in Members
    BY DEF ListInv, ListTypes, Members
<1>1. /\ l \in owned /\ Abort({l}) /\ content' = content /\ owned' = owned
      /\ handed' = handed /\ taskEnded' = taskEnded
    BY DEF AbortAll
<1>2. /\ aborting \subseteq aborting' /\ aborting' \subseteq ListTasks
      /\ \A t \in aborting' \ aborting : t \in ReachIn(content, l)
      /\ \A t \in ListTasks : t \in ReachIn(content, l) => t \in aborting' \cup taskEnded
    <2>1. {l} \in SUBSET Members
        BY <1>0
    <2>2. QED
        BY <1>1, <2>1, AbortEffect DEF ListInv
<1>3. ListInv'
    BY <1>1, <1>2 DEF ListInv, ListTypes, Roots
<1>4. \A o \in owned : Leaves(o)' = Leaves(o) /\ Leaves(o) = ReachIn(content, o) \cap ListTasks
    BY <1>1, ReachNow
<1>5. Innocent
    <2> SUFFICES ASSUME NEW t \in aborting' \ aborting, NEW o \in owned, t \in ReachIn(content, o)
                 PROVE  ReachIn(content, o) \cap ListTasks \subseteq aborting' \cup taskEnded
        BY <1>1, <1>4 DEF Innocent
    <2>1. o = l
        <3> SUFFICES ASSUME o # l PROVE FALSE
            OBVIOUS
        <3>1. Homeless(content, o) /\ Homeless(content, l) /\ o \in Members /\ Unique(content)
            BY <1>1 DEF ListInv, ListTypes, Roots, Members
        <3>2. QED
            BY <1>0, <1>2, <3>1, RootsAreDisjoint
    <2>2. QED
        BY <1>2, <2>1
<1>6. NoRunaway => NoRunaway'
    BY <1>1, <1>2, <1>4 DEF NoRunaway
<1>7. QED
    BY <1>3, <1>5, <1>6

\* Every step keeps the invariant, every task in reach and the innocent alone.
LEMMA ListStep ==
    ASSUME ListInv, NoRunaway, [ListNext]_listVars
    PROVE  ListInv' /\ NoRunaway' /\ (UNCHANGED listVars \/ Innocent)
<1>1. ASSUME NEW X, NEW A, Moves(X, A), ListInv'
      PROVE  NoRunaway' /\ Innocent
    BY <1>1, MovesKeepTasks, MovesAbortNoOther DEF Innocent
<1>2. CASE UNCHANGED listVars
    <2>1. ListInv' /\ \A l : Leaves(l)' = Leaves(l)
        BY <1>2, ReachNow DEF listVars, ListInv, ListTypes, Roots
    <2>2. QED
        BY <1>2, <2>1 DEF listVars, NoRunaway
<1>3. ASSUME NEW l \in Lists, NEW k \in Keys, AbortOne(l, k)
      PROVE  ListInv' /\ NoRunaway' /\ Innocent
    BY <1>1, <1>3, AbortOneMoves
<1>4. ASSUME NEW l \in Lists, NEW k \in Keys, NEW m \in Members, Insert(l, k, m)
      PROVE  ListInv' /\ NoRunaway' /\ Innocent
    BY <1>1, <1>4, InsertMoves
<1>5. ASSUME NEW l \in Lists, NEW other \in Lists, NEW keyMap \in [Keys -> Keys],
             ExtendFrom(l, other, keyMap)
      PROVE  ListInv' /\ NoRunaway' /\ Innocent
    BY <1>1, <1>5, ExtendFromMoves
<1>6. ASSUME NEW l \in Lists, AbortAll(l)
      PROVE  ListInv' /\ NoRunaway' /\ Innocent
    BY <1>6, AbortAllStep
<1>7. ASSUME NEW l \in Lists, DropList(l)
      PROVE  ListInv' /\ NoRunaway' /\ Innocent
    BY <1>1, <1>7, DropListMoves
<1>8. ASSUME NEW t \in ListTasks, TaskEnds(t)
      PROVE  ListInv' /\ NoRunaway' /\ Innocent
    <2>1. /\ taskEnded' = taskEnded \cup {t} /\ content' = content /\ owned' = owned
          /\ handed' = handed /\ aborting' = aborting
        BY <1>8 DEF TaskEnds
    <2>2. ListInv' /\ Innocent /\ \A l : Leaves(l)' = Leaves(l)
        BY <2>1, ReachNow DEF ListInv, ListTypes, Roots, Innocent
    <2>3. QED
        BY <2>1, <2>2 DEF NoRunaway
<1>9. QED
    BY <1>2, <1>3, <1>4, <1>5, <1>6, <1>7, <1>8 DEF ListNext

\* At first every list is empty and owned.
LEMMA ListStart == ListInit => ListInv /\ NoRunaway
<1> SUFFICES ASSUME ListInit PROVE ListInv /\ NoRunaway
    OBVIOUS
<1>1. content \in Shapes /\ \A l \in Lists, k \in Keys : content[l][k] = Vacant
    BY DEF ListInit, NoEntries, Shapes
<1>2. \A m \in Members : Homeless(content, m)
    BY <1>1, HomelessAt, ListAssumption DEF Members, ListTasks
<1>3. QED
    BY <1>1, <1>2 DEF ListInit, ListInv, ListTypes, Roots, Unique, NoRunaway, Members

\* However the lists of an AbortableList are filled, merged, nested and dropped, no task that was
\* handed over gets out of reach without having ended or being told to abort.
THEOREM NoTaskRunsAway == ListSpec => []NoRunaway
<1>1. ListInit => ListInv /\ NoRunaway
    BY ListStart
<1>2. ListInv /\ NoRunaway /\ [ListNext]_listVars => (ListInv /\ NoRunaway)'
    BY ListStep
<1>3. QED
    BY <1>1, <1>2, PTL DEF ListSpec

\* A removal, a merge or a drop tells no task to abort that stays in a list: only an abort_all,
\* which moves nothing, does, and it tells all of the list.
THEOREM OnlyTheRemovedAreAborted == ListSpec => NoInnocentAbort
<1>1. ListInit => ListInv /\ NoRunaway
    BY ListStart
<1>2. ListInv /\ NoRunaway /\ [ListNext]_listVars => (ListInv /\ NoRunaway)'
    BY ListStep
<1>3. ListInv /\ NoRunaway /\ [ListNext]_listVars =>
        [\A t \in aborting' \ aborting, l \in owned' :
            t \in Leaves(l)' => /\ UNCHANGED <<content, owned>>
                               /\ Leaves(l)' \subseteq aborting' \cup taskEnded]_listVars
    BY ListStep DEF Innocent
<1>4. QED
    BY <1>1, <1>2, <1>3, PTL DEF ListSpec, NoInnocentAbort
=============================================================================
