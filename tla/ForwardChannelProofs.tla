------------------------- MODULE ForwardChannelProofs -------------------------
(***************************************************************************)
(* Proofs about ForwardChannel, for any number of forwarders, items and    *)
(* any capacity: every item has a timer of its own, and the tasks with     *)
(* their sinks and the channel implement LossyRelay.                       *)
(***************************************************************************)
EXTENDS ForwardChannel, SequenceTheorems, WellFoundedInduction, TLAPS

(* Induction on the length of a queue. *)

\* A set of numbers with 0 and with the successor of each member holds every number.
LEMMA SetInduction ==
    ASSUME NEW T, T \subseteq Nat, 0 \in T, \A n \in T : n + 1 \in T
    PROVE  T = Nat
<1> SUFFICES ASSUME T # Nat
             PROVE  FALSE
    OBVIOUS
<1> DEFINE Less == {x \in Nat \X Nat : x[1] < x[2]}
           Out == Nat \ T
<1>1. IsWellFoundedOn(Less, Nat)
    <2>1. Less = OpToRel(<, Nat)
        BY DEF OpToRel
    <2>2. QED
        BY <2>1, NatLessThanWellFounded, Zenon
<1>2. PICK x \in Out : \A y \in Out : ~(<<y, x>> \in Less)
    <2>1. Out \subseteq Nat /\ Out # {}
        OBVIOUS
    <2> HIDE DEF Less, Out
    <2>2. QED
        BY <1>1, <2>1, WFMin, Zenon
<1>3. x \in Nat /\ x \notin T /\ x # 0
    BY <1>2
<1>4. x - 1 \in Nat /\ x - 1 < x /\ (x - 1) + 1 = x
    BY <1>3
<1>5. x - 1 \in T
    <2> SUFFICES ASSUME x - 1 \in Out
                 PROVE  FALSE
        BY <1>4
    <2>1. <<x - 1, x>> \in Less
        BY <1>3, <1>4
    <2>2. QED
        BY <1>2, <2>1, Zenon
<1>6. QED
    BY <1>3, <1>4, <1>5

\* The recursion of KeptUpTo, and the functions that satisfy it up to n.
Body(q, S, g, n) ==
    IF n = 0 THEN <<>> ELSE IF q[n] \in S THEN Append(g[n - 1], q[n]) ELSE g[n - 1]
IsPart(q, S, n, g) == g = [i \in 0..n |-> Body(q, S, g, i)]

\* There is one for every n,
LEMMA PartExists ==
    ASSUME NEW q, NEW S, NEW n \in Nat
    PROVE  \E g : IsPart(q, S, n, g)
<1> DEFINE T == {m \in Nat : \E g : IsPart(q, S, m, g)}
<1>1. 0 \in T
    <2> DEFINE g == [i \in 0..0 |-> <<>>]
    <2>1. g = [i \in 0..0 |-> Body(q, S, g, i)]
        BY DEF Body
    <2>2. QED
        BY <2>1 DEF IsPart
<1>2. ASSUME NEW m \in T
      PROVE  m + 1 \in T
    <2>1. PICK g : IsPart(q, S, m, g)
        OBVIOUS
    <2> DEFINE h == [i \in 0 .. m + 1 |-> IF i = m + 1 THEN Body(q, S, g, i) ELSE g[i]]
    <2>2. ASSUME NEW i \in 0 .. m + 1
          PROVE  h[i] = Body(q, S, h, i)
        <3>1. CASE i = 0
            <4>1. h[i] = g[0] /\ g[0] = <<>>
                BY <2>1, <3>1 DEF IsPart, Body
            <4>2. QED
                BY <3>1, <4>1 DEF Body
        <3>2. CASE i # 0
            <4>1. i - 1 \in 0..m /\ h[i - 1] = g[i - 1]
                BY <3>2
            <4>2. h[i] = Body(q, S, g, i)
                BY <2>1, <3>2 DEF IsPart
            <4> HIDE DEF h
            <4>3. QED
                BY <3>2, <4>1, <4>2 DEF Body
        <3>3. QED
            BY <3>1, <3>2
    <2>3. h = [i \in 0 .. m + 1 |-> h[i]]
        OBVIOUS
    <2> HIDE DEF h
    <2>4. IsPart(q, S, m + 1, h)
        BY <2>2, <2>3 DEF IsPart
    <2>5. QED
        BY <2>4
<1> HIDE DEF T
<1>3. T = Nat
    <2>1. T \subseteq Nat
        BY DEF T
    <2>2. QED
        BY <1>1, <1>2, <2>1, SetInduction
<1>4. QED
    BY <1>3 DEF T

\* and any two agree where both are defined.
LEMMA PartUnique ==
    ASSUME NEW q, NEW S, NEW n \in Nat, NEW m \in Nat, NEW g, NEW h,
           IsPart(q, S, n, g), IsPart(q, S, m, h), NEW j \in Nat, j <= n, j <= m
    PROVE  g[j] = h[j]
<1> DEFINE T == {i \in Nat : i <= n /\ i <= m => g[i] = h[i]}
<1>0. /\ \A i \in Nat : i <= n => g[i] = Body(q, S, g, i)
      /\ \A i \in Nat : i <= m => h[i] = Body(q, S, h, i)
    <2>1. ASSUME NEW k \in Nat, NEW f, IsPart(q, S, k, f), NEW i \in Nat, i <= k
          PROVE  f[i] = Body(q, S, f, i)
        <3>1. i \in 0..k
            BY <2>1
        <3>2. f = [a \in 0..k |-> Body(q, S, f, a)]
            BY <2>1, Zenon DEF IsPart
        <3>3. QED
            BY <3>1, <3>2, Zenon
    <2>2. QED
        BY <2>1
<1>1. 0 \in T
    BY <1>0 DEF Body
<1>2. ASSUME NEW i \in T
      PROVE  i + 1 \in T
    <2> SUFFICES ASSUME i + 1 <= n, i + 1 <= m
                 PROVE  g[i + 1] = h[i + 1]
        OBVIOUS
    <2>1. i \in Nat /\ i + 1 # 0 /\ (i + 1) - 1 = i /\ g[i] = h[i]
        OBVIOUS
    <2>2. g[i + 1] = Body(q, S, g, i + 1) /\ h[i + 1] = Body(q, S, h, i + 1)
        BY <1>0
    <2>3. QED
        BY <2>1, <2>2 DEF Body
<1> HIDE DEF T
<1>3. T = Nat
    <2>1. T \subseteq Nat
        BY DEF T
    <2>2. QED
        BY <1>1, <1>2, <2>1, SetInduction
<1>4. QED
    BY <1>3 DEF T

\* So KeptUpTo is the function its recursion says it is.
Recurs(L, q, S) ==
    /\ L[0] = <<>>
    /\ \A n \in Nat : L[n + 1] = IF q[n + 1] \in S THEN Append(L[n], q[n + 1]) ELSE L[n]
\* It satisfies its own recursion.
LEMMA KeptRecursion ==
    ASSUME NEW q, NEW S
    PROVE  Recurs(KeptUpTo(q, S), q, S)
<1> DEFINE G(n) == CHOOSE g : IsPart(q, S, n, g)
           K == [n \in Nat |-> G(n)[n]]
<1>1. ASSUME NEW n \in Nat
      PROVE  IsPart(q, S, n, G(n))
    BY PartExists
<1>2. ASSUME NEW n \in Nat
      PROVE  K[n] = Body(q, S, K, n)
    <2>1. K[n] = Body(q, S, G(n), n)
        <3>1. n \in 0..n
            OBVIOUS
        <3>2. G(n)[n] = Body(q, S, G(n), n)
            BY <1>1, <3>1 DEF IsPart
        <3>3. QED
            BY <3>2
    <2>2. CASE n = 0
        BY <2>1, <2>2 DEF Body
    <2>3. CASE n # 0
        <3>1. n - 1 \in Nat /\ n - 1 <= n
            BY <2>3
        <3>2. G(n)[n - 1] = G(n - 1)[n - 1]
            BY <1>1, <3>1, PartUnique
        <3>3. K[n - 1] = G(n)[n - 1]
            BY <3>1, <3>2
        <3> HIDE DEF K
        <3>4. QED
            BY <2>1, <2>3, <3>3 DEF Body
    <2>4. QED
        BY <2>2, <2>3
<1>3. K = [n \in Nat |-> Body(q, S, K, n)]
    BY <1>2
<1> HIDE DEF K
<1>4. \E kept : kept = [n \in Nat |-> IF n = 0 THEN <<>>
                                       ELSE IF q[n] \in S THEN Append(kept[n - 1], q[n]) ELSE kept[n - 1]]
    BY <1>3 DEF Body
<1>5. KeptUpTo(q, S) = [n \in Nat |-> IF n = 0 THEN <<>>
                                      ELSE IF q[n] \in S THEN Append(KeptUpTo(q, S)[n - 1], q[n])
                                                         ELSE KeptUpTo(q, S)[n - 1]]
    BY <1>4 DEF KeptUpTo
<1> DEFINE L == KeptUpTo(q, S)
<1> HIDE DEF L
<1>6. \A n \in Nat : L[n] = IF n = 0 THEN <<>>
                            ELSE IF q[n] \in S THEN Append(L[n - 1], q[n]) ELSE L[n - 1]
    BY <1>5 DEF L
<1>7. ASSUME NEW n \in Nat
      PROVE  L[n + 1] = IF q[n + 1] \in S THEN Append(L[n], q[n + 1]) ELSE L[n]
    <2>1. n + 1 \in Nat /\ n + 1 # 0 /\ (n + 1) - 1 = n
        OBVIOUS
    <2>2. QED
        BY <1>6, <2>1
<1>8. QED
    BY <1>6, <1>7 DEF L, Recurs

\* What is kept of a prefix is a sequence of its entries,
LEMMA KeptType ==
    ASSUME NEW V, NEW q \in Seq(V), NEW S, NEW n \in Nat, n <= Len(q)
    PROVE  KeptUpTo(q, S)[n] \in Seq(V)
<1> DEFINE L == KeptUpTo(q, S)
           T == {i \in Nat : i <= Len(q) => L[i] \in Seq(V)}
<1>0. Recurs(L, q, S)
    BY KeptRecursion
<1> HIDE DEF L
<1>1. 0 \in T
    <2>1. L[0] = <<>>
        BY <1>0 DEF Recurs
    <2>2. <<>> \in Seq(V)
        OBVIOUS
    <2>3. QED
        BY <2>1, <2>2
<1>2. ASSUME NEW i \in T
      PROVE  i + 1 \in T
    <2> SUFFICES ASSUME i + 1 <= Len(q)
                 PROVE  L[i + 1] \in Seq(V)
        OBVIOUS
    <2>1. L[i] \in Seq(V) /\ q[i + 1] \in V /\ i \in Nat
        OBVIOUS
    <2>2. L[i + 1] = L[i] \/ L[i + 1] = Append(L[i], q[i + 1])
        BY <1>0, <2>1 DEF Recurs
    <2>3. Append(L[i], q[i + 1]) \in Seq(V)
        BY <2>1
    <2>4. QED
        BY <2>1, <2>2, <2>3
<1> HIDE DEF T
<1>3. T = Nat
    <2>1. T \subseteq Nat
        BY DEF T
    <2>2. QED
        BY <1>1, <1>2, <2>1, SetInduction
<1>4. QED
    BY <1>3 DEF T, L

\* depends on nothing behind it,
LEMMA KeptOfPrefix ==
    ASSUME NEW V, NEW q \in Seq(V), NEW r, NEW S, \A i \in 1..Len(q) : r[i] = q[i]
    PROVE  KeptUpTo(r, S)[Len(q)] = KeptUpTo(q, S)[Len(q)]
<1> DEFINE L == KeptUpTo(q, S)
           M == KeptUpTo(r, S)
           T == {i \in Nat : i <= Len(q) => M[i] = L[i]}
<1>0. Recurs(L, q, S) /\ Recurs(M, r, S)
    BY KeptRecursion
<1> HIDE DEF L, M
<1>1. 0 \in T
    BY <1>0 DEF Recurs
<1>2. ASSUME NEW i \in T
      PROVE  i + 1 \in T
    <2> SUFFICES ASSUME i + 1 <= Len(q)
                 PROVE  M[i + 1] = L[i + 1]
        OBVIOUS
    <2>1. M[i] = L[i] /\ r[i + 1] = q[i + 1] /\ i \in Nat
        OBVIOUS
    <2>2. QED
        BY <1>0, <2>1 DEF Recurs
<1> HIDE DEF T
<1>3. T = Nat
    <2>1. T \subseteq Nat
        BY DEF T
    <2>2. QED
        BY <1>1, <1>2, <2>1, SetInduction
<1>4. QED
    BY <1>3 DEF T, L, M

\* and begins with the first entry if that is kept.
FirstKept(q, S) == IF Head(q) \in S THEN <<Head(q)>> ELSE <<>>
\* Keeping the entries of a queue keeps those of its tail, behind its head.
LEMMA KeptOfTail ==
    ASSUME NEW V, NEW q \in Seq(V), q # <<>>, NEW S, NEW n \in Nat, n <= Len(q) - 1
    PROVE  KeptUpTo(q, S)[n + 1] = FirstKept(q, S) \o KeptUpTo(Tail(q), S)[n]
<1> DEFINE L == KeptUpTo(q, S)
           M == KeptUpTo(Tail(q), S)
           front == FirstKept(q, S)
           T == {i \in Nat : i <= Len(q) - 1 => L[i + 1] = front \o M[i]}
<1>0. Recurs(L, q, S) /\ Recurs(M, Tail(q), S)
    BY KeptRecursion
<1>a. /\ Tail(q) \in Seq(V) /\ Len(Tail(q)) = Len(q) - 1 /\ Len(q) \in Nat /\ Head(q) = q[1]
      /\ Head(q) \in V
      /\ \A i \in 1 .. Len(q) - 1 : Tail(q)[i] = q[i + 1]
    OBVIOUS
<1>b. \A i \in Nat : i <= Len(q) - 1 => M[i] \in Seq(V)
    BY <1>a, KeptType
<1>c. front \in Seq(V)
    BY <1>a DEF FirstKept
<1>d. front = IF Head(q) \in S THEN <<Head(q)>> ELSE <<>>
    BY DEF FirstKept
<1> HIDE DEF L, M, T, front
<1>e. ASSUME NEW m \in Seq(V), NEW x \in V
      PROVE  Append(front \o m, x) = front \o Append(m, x)
    <2>1. front \o m \in Seq(V) /\ <<x>> \in Seq(V)
        BY <1>c
    <2>2. Append(front \o m, x) = (front \o m) \o <<x>> /\ Append(m, x) = m \o <<x>>
        BY <2>1, AppendIsConcat
    <2>3. (front \o m) \o <<x>> = front \o (m \o <<x>>)
        <3> DEFINE w == <<x>>
        <3> HIDE DEF w
        <3>1. w \in Seq(V)
            BY <2>1 DEF w
        <3>2. (front \o m) \o w = front \o (m \o w)
            BY <1>c, <3>1, ConcatAssociative
        <3>3. QED
            BY <3>2 DEF w
    <2>4. QED
        BY <2>2, <2>3
<1> USE DEF T
<1>1. 0 \in T
    <2>1. L[1] = IF Head(q) \in S THEN Append(<<>>, Head(q)) ELSE <<>>
        <3>1. L[0 + 1] = IF q[0 + 1] \in S THEN Append(L[0], q[0 + 1]) ELSE L[0]
            BY <1>0 DEF Recurs
        <3>2. L[0] = <<>> /\ 0 + 1 = 1
            BY <1>0 DEF Recurs
        <3>3. QED
            BY <1>a, <3>1, <3>2
    <2>2. Append(<<>>, Head(q)) = <<Head(q)>>
        OBVIOUS
    <2>3. L[1] = front
        BY <1>d, <2>1, <2>2
    <2>4. front \o <<>> = front
        BY <1>c, ConcatEmptySeq
    <2>5. M[0] = <<>> /\ 0 + 1 = 1
        BY <1>0 DEF Recurs
    <2>6. L[0 + 1] = front \o M[0]
        BY <2>3, <2>4, <2>5
    <2>7. QED
        BY <2>6
<1>2. ASSUME NEW i \in T
      PROVE  i + 1 \in T
    <2> SUFFICES ASSUME i + 1 <= Len(q) - 1
                 PROVE  L[(i + 1) + 1] = front \o M[i + 1]
        OBVIOUS
    <2> DEFINE x == q[(i + 1) + 1]
    <2>1. i \in Nat /\ i + 1 \in Nat /\ i <= Len(q) - 1 /\ i + 1 \in 1 .. Len(q) - 1
        BY <1>a
    <2>2. Tail(q)[i + 1] = x /\ x \in V
        <3>1. (i + 1) + 1 \in 1..Len(q)
            BY <1>a, <2>1
        <3>2. QED
            BY <1>a, <2>1, <3>1
    <2>3. L[(i + 1) + 1] = IF x \in S THEN Append(L[i + 1], x) ELSE L[i + 1]
        BY <1>0, <2>1 DEF Recurs
    <2>4. M[i + 1] = IF x \in S THEN Append(M[i], x) ELSE M[i]
        BY <1>0, <2>1, <2>2 DEF Recurs
    <2>5. L[i + 1] = front \o M[i] /\ M[i] \in Seq(V)
        BY <1>b, <2>1
    <2> HIDE DEF x
    <2>6. Append(front \o M[i], x) = front \o Append(M[i], x)
        BY <1>e, <2>2, <2>5
    <2>7. QED
        BY <2>3, <2>4, <2>5, <2>6
<1> HIDE DEF T
<1>3. T = Nat
    <2>1. T \subseteq Nat
        BY DEF T
    <2>2. QED
        BY <1>1, <1>2, <2>1, SetInduction
<1>4. QED
    BY <1>3 DEF T, L, M, front

\* What Keep does as a queue is filled and emptied.
LEMMA KeepFacts ==
    ASSUME NEW V, NEW q \in Seq(V), NEW S
    PROVE  /\ Keep(q, S) \in Seq(V)
           /\ \A x \in V : Keep(Append(q, x), S) = IF x \in S THEN Append(Keep(q, S), x) ELSE Keep(q, S)
           /\ q # <<>> => Keep(q, S) = FirstKept(q, S) \o Keep(Tail(q), S)
<1>1. Keep(q, S) \in Seq(V)
    BY KeptType DEF Keep
<1>2. ASSUME NEW x \in V
      PROVE  Keep(Append(q, x), S) = IF x \in S THEN Append(Keep(q, S), x) ELSE Keep(q, S)
    <2> DEFINE r == Append(q, x)
    <2>1. /\ Len(r) = Len(q) + 1 /\ r[Len(q) + 1] = x /\ Len(q) \in Nat
          /\ \A i \in 1..Len(q) : r[i] = q[i]
        OBVIOUS
    <2> HIDE DEF r
    <2>2. KeptUpTo(r, S)[Len(q)] = KeptUpTo(q, S)[Len(q)]
        BY <2>1, KeptOfPrefix
    <2>3. KeptUpTo(r, S)[Len(q) + 1] =
             IF r[Len(q) + 1] \in S THEN Append(KeptUpTo(r, S)[Len(q)], r[Len(q) + 1])
                                    ELSE KeptUpTo(r, S)[Len(q)]
        <3>1. Recurs(KeptUpTo(r, S), r, S)
            BY KeptRecursion
        <3>2. QED
            BY <2>1, <3>1 DEF Recurs
    <2>4. QED
        BY <2>1, <2>2, <2>3 DEF Keep, r
<1>3. ASSUME q # <<>>
      PROVE  Keep(q, S) = FirstKept(q, S) \o Keep(Tail(q), S)
    <2> DEFINE n == Len(q) - 1
    <2>1. Len(Tail(q)) = n /\ n \in Nat /\ n + 1 = Len(q) /\ n <= Len(q) - 1
        BY <1>3
    <2> HIDE DEF n
    <2>2. KeptUpTo(q, S)[n + 1] = FirstKept(q, S) \o KeptUpTo(Tail(q), S)[n]
        BY <1>3, <2>1, KeptOfTail
    <2>3. QED
        BY <2>1, <2>2 DEF Keep
<1>4. QED
    BY <1>1, <1>2, <1>3

\* Nothing is kept of nothing.
LEMMA KeepEmpty == \A S : Keep(<<>>, S) = <<>>
BY KeptRecursion DEF Keep, Recurs
-----------------------------------------------------------------------------
(* The inductive invariant. *)

Entry == Forwarders \X Nat

Types ==
    /\ {offered, taken, held, slot, timed} \subseteq [Forwarders -> Nat]
    /\ finish \in [Forwarders -> {"open", "end", "error"}]
    /\ inFlight \in [Forwarders -> BOOLEAN]
    /\ timer \in [Forwarders -> {"none", "armed", "elapsed"}]
    /\ pc \in [Forwarders -> Points]
    /\ woken \in [Forwarders -> BOOLEAN] /\ listening \in [Forwarders -> BOOLEAN]
    /\ waiters \in Seq(Forwarders) /\ gone \in BOOLEAN
    /\ chan \in Seq(Entry) /\ delivered \in [Forwarders -> Seq(Entry)]

\* An item is taken before it is in hand, timed or in the sink.
Bounds(f) == /\ offered[f] <= Items[f] /\ taken[f] <= offered[f]
             /\ held[f] <= taken[f] /\ slot[f] <= taken[f] /\ timed[f] <= taken[f]

\* An item is in hand just while poll_ready of the sink is asked about it, and only then does
\* a timer run, its own; a timer is looked at while the sink holds another item; a task closes
\* its sink when its stream has ended.
Control(f) ==
    /\ held[f] # 0 => pc[f] \in {"parked", "ready", "timer"}
    /\ pc[f] \in {"ready", "timer"} => held[f] # 0
    /\ pc[f] = "timer" => slot[f] # 0
    /\ inFlight[f] => slot[f] # 0
    /\ timer[f] # "none" => held[f] # 0 /\ held[f] = timed[f]
    /\ pc[f] = "close" => finish[f] = "end" /\ taken[f] = offered[f]

IInv == Types /\ Len(chan) <= Capacity /\ \A f \in Forwarders : Bounds(f) /\ Control(f)
-----------------------------------------------------------------------------
(* Types. *)

\* The channel wakes a sender: one fewer waits.
LEMMA WakeSenderTypes ==
    ASSUME Types, WakeSender(waiters)
    PROVE  waiters' \in Seq(Forwarders) /\ woken' \in [Forwarders -> BOOLEAN]
<1>1. waiters' \in Seq(Forwarders)
    <2>0. waiters \in Seq(Forwarders)
        BY DEF Types
    <2>1. CASE waiters = <<>>
        BY <2>0, <2>1 DEF WakeSender
    <2>2. CASE waiters # <<>>
        BY <2>0, <2>2 DEF WakeSender
    <2>3. QED
        BY <2>1, <2>2
<1>2. woken' \in [Forwarders -> BOOLEAN]
    BY Zenon DEF WakeSender
<1>3. QED
    BY <1>1, <1>2

\* A sender leaves the list of those that wait.
LEMMA KeepWaiters ==
    ASSUME Types, NEW f \in Forwarders
    PROVE  Keep(waiters, Forwarders \ {f}) \in Seq(Forwarders)
<1>1. waiters \in Seq(Forwarders)
    BY DEF Types
<1>2. QED
    BY <1>1, KeepFacts

\* What start_send writes, and what ends a forwarding, has its type.
LEMMA StartSendTypes ==
    ASSUME Types, NEW f \in Forwarders, StartSend(f)
    PROVE  /\ {held', slot', timed'} \subseteq [Forwarders -> Nat] /\ inFlight' \in [Forwarders -> BOOLEAN]
           /\ timer' \in [Forwarders -> {"none", "armed", "elapsed"}] /\ pc' \in [Forwarders -> Points]
<1>1. {held', slot', timed'} \subseteq [Forwarders -> Nat]
    BY DEF Types, StartSend
<1>2. inFlight' \in [Forwarders -> BOOLEAN] /\ timer' \in [Forwarders -> {"none", "armed", "elapsed"}]
    BY DEF Types, StartSend
<1>3. pc' \in [Forwarders -> Points]
    BY DEF Types, StartSend, AfterSink, Points
<1>4. QED
    BY <1>1, <1>2, <1>3

\* A forwarding that is abandoned keeps the types.
LEMMA AbandonTypes ==
    ASSUME Types, NEW f \in Forwarders, Abandon(f)
    PROVE  Types'
<1>1. {held', slot', timed'} \subseteq [Forwarders -> Nat]
    BY DEF Types, Abandon
<1>2. inFlight' \in [Forwarders -> BOOLEAN] /\ timer' \in [Forwarders -> {"none", "armed", "elapsed"}]
    BY DEF Types, Abandon
<1>3. pc' \in [Forwarders -> Points]
    BY DEF Types, Abandon, Points
<1>4. waiters' \in Seq(Forwarders) /\ woken' \in [Forwarders -> BOOLEAN]
    <2>1. CASE WakeSender(waiters)
        BY <2>1, WakeSenderTypes
    <2>2. CASE waiters' = Keep(waiters, Forwarders \ {f}) /\ woken' = woken
        BY <2>2, KeepWaiters DEF Types
    <2>3. QED
        BY <2>1, <2>2 DEF Abandon
<1>5. UNCHANGED <<offered, finish, taken, listening, chan, gone, delivered>>
    BY DEF Abandon, streamVars
<1>6. QED
    BY <1>1, <1>2, <1>3, <1>4, <1>5 DEF Types

\* The streams, the receiver and the clock keep the types.
LEMMA TypesEnvironment ==
    ASSUME Types, \/ \E f \in Forwarders : Offer(f) \/ End(f) \/ Elapse(f)
                  \/ Receive \/ DropReceiver
    PROVE  Types'
<1>1. ASSUME NEW f \in Forwarders, Offer(f) \/ End(f)
      PROVE  Types'
    <2>1. offered' \in [Forwarders -> Nat] /\ finish' \in [Forwarders -> {"open", "end", "error"}]
        <3>1. CASE Offer(f)
            <4>1. offered[f] + 1 \in Nat
                BY DEF Types
            <4>2. QED
                BY <3>1, <4>1 DEF Offer, Types
        <3>2. CASE End(f)
            BY <3>2 DEF End, Types
        <3>3. QED
            BY <1>1, <3>1, <3>2
    <2>2. woken' \in [Forwarders -> BOOLEAN] /\ listening' \in [Forwarders -> BOOLEAN]
        BY <1>1 DEF Offer, End, WakeListener, Types
    <2>3. UNCHANGED <<taken, held, slot, inFlight, timer, timed, pc, waiters, chan, gone, delivered>>
        BY <1>1 DEF Offer, End, sinkVars
    <2>4. QED
        BY <2>1, <2>2, <2>3 DEF Types
<1>2. ASSUME NEW f \in Forwarders, Elapse(f)
      PROVE  Types'
    <2>1. woken' \in [Forwarders -> BOOLEAN] /\ timer' \in [Forwarders -> {"none", "armed", "elapsed"}]
        BY <1>2 DEF Elapse, Types
    <2>2. QED
        BY <1>2, <2>1 DEF Elapse, streamVars, sinkVars, Types
<1>3. CASE Receive
    <2>1. waiters' \in Seq(Forwarders) /\ woken' \in [Forwarders -> BOOLEAN]
        BY <1>3, WakeSenderTypes DEF Receive
    <2>2. chan' \in Seq(Entry) /\ delivered' \in [Forwarders -> Seq(Entry)]
        <3>1. chan \in Seq(Entry) /\ chan # <<>> /\ delivered \in [Forwarders -> Seq(Entry)]
            BY <1>3 DEF Receive, Types
        <3> DEFINE e == Head(chan)
                   g == e[1]
        <3>2. e \in Entry /\ Tail(chan) \in Seq(Entry)
            BY <3>1
        <3>3. g \in Forwarders
            BY <3>2 DEF Entry
        <3>4. chan' = Tail(chan) /\ delivered' = [delivered EXCEPT ![g] = Append(@, e)]
            BY <1>3 DEF Receive
        <3> HIDE DEF e, g
        <3>5. Append(delivered[g], e) \in Seq(Entry)
            BY <3>1, <3>2, <3>3
        <3>6. delivered' \in [Forwarders -> Seq(Entry)]
            BY <3>1, <3>3, <3>4, <3>5
        <3>7. QED
            BY <3>2, <3>4, <3>6
    <2>3. QED
        BY <1>3, <2>1, <2>2 DEF Receive, streamVars, sinkVars, Types
<1>4. CASE DropReceiver
    <2>1. woken' \in [Forwarders -> BOOLEAN]
        BY <1>4, Zenon DEF DropReceiver
    <2>2. waiters' \in Seq(Forwarders)
        BY <1>4 DEF DropReceiver
    <2>3. QED
        BY <1>4, <2>1, <2>2 DEF DropReceiver, streamVars, sinkVars, Types
<1>5. QED
    BY <1>1, <1>2, <1>3, <1>4

\* A task keeps the types.
LEMMA TypesTask ==
    ASSUME Types, NEW f \in Forwarders, Task(f)
    PROVE  Types'
<1>1. CASE Poll(f)
    BY <1>1 DEF Poll, Goto, streamVars, sinkVars, Types, Points
<1>2. CASE SinkIdle(f)
    BY <1>2, StartSendTypes DEF SinkIdle, streamVars, Types
<1>3. CASE SinkSend(f)
    <2>1. StartSend(f) /\ UNCHANGED <<offered, finish, taken, woken, listening, gone, delivered>>
        BY <1>3 DEF SinkSend, streamVars
    <2>2. waiters' \in Seq(Forwarders)
        BY <1>3, KeepWaiters DEF SinkSend
    <2>3. chan' \in Seq(Entry)
        <3>1. <<f, slot[f]>> \in Entry /\ chan \in Seq(Entry)
            BY DEF Types, Entry
        <3>2. chan' = Append(chan, <<f, slot[f]>>)
            BY <1>3 DEF SinkSend
        <3>3. QED
            BY <3>1, <3>2
    <2>4. QED
        BY <2>1, <2>2, <2>3, StartSendTypes DEF Types
<1>4. CASE SinkDisconnected(f) \/ NextError(f)
    BY <1>4, AbandonTypes DEF SinkDisconnected, NextError
<1>5. CASE TrySendFull(f)
    BY <1>5 DEF TrySendFull, streamVars, Types
<1>6. CASE SendPending(f)
    <2>1. waiters' \in Seq(Forwarders)
        <3>1. waiters \in Seq(Forwarders) /\ Append(waiters, f) \in Seq(Forwarders)
            BY DEF Types
        <3>2. QED
            BY <1>6, <3>1 DEF SendPending
    <2>2. pc' \in [Forwarders -> Points]
        BY <1>6 DEF SendPending, AfterPending, Types, Points
    <2>3. QED
        BY <1>6, <2>1, <2>2 DEF SendPending, streamVars, sinkVars, Types
<1>7. CASE ArmTimer(f)
    BY <1>7 DEF ArmTimer, streamVars, sinkVars, Types
<1>8. CASE TimerPending(f)
    BY <1>8 DEF TimerPending, Goto, streamVars, sinkVars, Types, Points
<1>9. CASE TimedOut(f)
    BY <1>9 DEF TimedOut, Goto, streamVars, sinkVars, Types, Points
<1>10. CASE NextItem(f)
    <2>1. taken[f] + 1 \in Nat
        BY DEF Types
    <2>2. taken' \in [Forwarders -> Nat] /\ taken'[f] = taken[f] + 1
        BY <1>10, <2>1 DEF NextItem, Types
    <2>3. held' \in [Forwarders -> Nat]
        BY <1>10, <2>1, <2>2 DEF NextItem, Types
    <2>4. pc' \in [Forwarders -> Points]
        BY <1>10 DEF NextItem, Goto, Types, Points
    <2>5. QED
        BY <1>10, <2>2, <2>3, <2>4 DEF NextItem, streamVars, sinkVars, Types
<1>11. CASE NextNone(f)
    BY <1>11 DEF NextNone, Goto, streamVars, sinkVars, Types, Points
<1>12. CASE NextPending(f)
    BY <1>12 DEF NextPending, Goto, streamVars, sinkVars, Types, Points
<1>13. QED
    BY <1>1, <1>2, <1>3, <1>4, <1>5, <1>6, <1>7, <1>8, <1>9, <1>10, <1>11, <1>12 DEF Task

\* Every step keeps the types.
LEMMA TypesStep ==
    ASSUME Types, [Next]_vars
    PROVE  Types'
<1>1. CASE UNCHANGED vars
    BY <1>1 DEF vars, Types
<1>2. QED
    BY <1>1, TypesEnvironment, TypesTask DEF Next
-----------------------------------------------------------------------------
(* The bounds and the control. *)

\* The variables of task g that Bounds and Control speak of.
Alike(g) == /\ offered'[g] = offered[g] /\ finish'[g] = finish[g] /\ taken'[g] = taken[g]
            /\ held'[g] = held[g] /\ slot'[g] = slot[g] /\ inFlight'[g] = inFlight[g]
            /\ timer'[g] = timer[g] /\ timed'[g] = timed[g] /\ pc'[g] = pc[g]

\* A step of a task, its stream or its timer leaves the other tasks alone,
LEMMA OthersAlike ==
    ASSUME Types, NEW f \in Forwarders, Task(f) \/ Offer(f) \/ End(f) \/ Elapse(f),
           NEW g \in Forwarders, g # f
    PROVE  Alike(g)
<1>1. CASE Offer(f) \/ End(f) \/ Elapse(f)
    BY <1>1 DEF Offer, End, Elapse, Alike, Types, streamVars, sinkVars
<1>2. CASE Poll(f) \/ TrySendFull(f) \/ SendPending(f)
    BY <1>2 DEF Poll, Goto, TrySendFull, SendPending, AfterPending, Alike, Types, streamVars, sinkVars
<1>3. CASE SinkIdle(f) \/ SinkSend(f)
    BY <1>3 DEF SinkIdle, SinkSend, StartSend, AfterSink, Alike, Types, streamVars
<1>4. CASE SinkDisconnected(f) \/ NextError(f)
    BY <1>4 DEF SinkDisconnected, NextError, Abandon, Alike, Types, streamVars
<1>5. CASE ArmTimer(f) \/ TimerPending(f) \/ TimedOut(f)
    BY <1>5 DEF ArmTimer, TimerPending, TimedOut, Goto, Alike, Types, streamVars, sinkVars
<1>6. CASE NextItem(f) \/ NextNone(f) \/ NextPending(f)
    BY <1>6 DEF NextItem, NextNone, NextPending, Goto, Alike, Types, streamVars, sinkVars
<1>7. QED
    BY <1>1, <1>2, <1>3, <1>4, <1>5, <1>6 DEF Task

\* and the receiver leaves all of them alone.
LEMMA ReceiverAlike ==
    ASSUME Receive \/ DropReceiver \/ UNCHANGED vars, NEW g \in Forwarders
    PROVE  Alike(g)
BY DEF Receive, DropReceiver, vars, streamVars, sinkVars, Alike

\* The numbers of a task.
LEMMA Numbers ==
    ASSUME Types, NEW f \in Forwarders
    PROVE  /\ {offered[f], taken[f], held[f], slot[f], timed[f], Items[f]} \subseteq Nat
           /\ pc[f] \in Points
BY ForwardAssumption DEF Types

\* A step of a task, its stream or its timer keeps its numbers in their bounds.
LEMMA BoundsStep ==
    ASSUME Types, NEW f \in Forwarders, Bounds(f), Task(f) \/ Offer(f) \/ End(f) \/ Elapse(f)
    PROVE  Bounds(f)'
<1>0. {offered[f], taken[f], held[f], slot[f], timed[f], Items[f]} \subseteq Nat
    BY Numbers
<1>1. CASE Offer(f)
    <2>1. /\ offered[f] < Items[f] /\ offered'[f] = offered[f] + 1
          /\ UNCHANGED <<taken, held, slot, timed>>
        BY <1>1 DEF Offer, Types, sinkVars
    <2>2. QED
        BY <1>0, <2>1 DEF Bounds
<1>2. CASE NextItem(f)
    <2>1. /\ taken[f] < offered[f] /\ taken'[f] = taken[f] + 1 /\ held'[f] = taken[f] + 1
          /\ UNCHANGED <<offered, slot, timed>>
        BY <1>2 DEF NextItem, Types, streamVars, sinkVars
    <2>2. QED
        BY <1>0, <2>1 DEF Bounds
<1>3. CASE ~Offer(f) /\ ~NextItem(f)
    <2>1. UNCHANGED <<offered, taken>>
        BY <1>3 DEF Task, Offer, End, Elapse, Poll, SinkIdle, SinkSend, SinkDisconnected, Abandon,
                    TrySendFull, SendPending, ArmTimer, TimerPending, TimedOut, NextNone, NextError,
                    NextPending, streamVars
    <2>2. held'[f] \in {0, held[f]} /\ slot'[f] \in {0, slot[f], held[f]} /\ timed'[f] \in {0, timed[f], held[f]}
        <3>1. CASE SinkIdle(f) \/ SinkSend(f)
            BY <3>1 DEF SinkIdle, SinkSend, StartSend, Types
        <3>2. CASE SinkDisconnected(f) \/ NextError(f)
            BY <3>2 DEF SinkDisconnected, NextError, Abandon, Types
        <3>3. CASE ArmTimer(f) \/ TimedOut(f)
            BY <3>3 DEF ArmTimer, TimedOut, Types, sinkVars
        <3>4. CASE \/ End(f) \/ Elapse(f) \/ Poll(f) \/ TrySendFull(f) \/ SendPending(f) \/ TimerPending(f)
                   \/ NextNone(f) \/ NextPending(f)
            BY <3>4 DEF End, Elapse, Poll, TrySendFull, SendPending, TimerPending, NextNone, NextPending,
                        sinkVars
        <3>5. QED
            BY <1>3, <3>1, <3>2, <3>3, <3>4 DEF Task
    <2> DEFINE h == held[f]  s == slot[f]  t == timed[f]
               h2 == held'[f]  s2 == slot'[f]  t2 == timed'[f]
               k == taken[f]
    <2>3. h <= k /\ s <= k /\ t <= k /\ {h, s, t, k} \subseteq Nat
        BY <1>0 DEF Bounds
    <2>4. h2 \in {0, h} /\ s2 \in {0, s, h} /\ t2 \in {0, t, h}
        BY <2>2
    <2> HIDE DEF h, s, t, h2, s2, t2, k
    <2>5. h2 <= k /\ s2 <= k /\ t2 <= k
        BY <2>3, <2>4
    <2>6. QED
        BY <2>1, <2>5 DEF Bounds, h2, s2, t2, k
<1>4. QED
    BY <1>1, <1>2, <1>3

\* And it stays where its items allow it to be.
LEMMA ControlStep ==
    ASSUME Types, NEW f \in Forwarders, Control(f), Bounds(f), Task(f) \/ Offer(f) \/ End(f) \/ Elapse(f)
    PROVE  Control(f)'
<1>0. /\ pc[f] \in Points /\ taken[f] \in Nat /\ offered[f] \in Nat
      /\ DOMAIN pc = Forwarders /\ DOMAIN held = Forwarders /\ DOMAIN slot = Forwarders
      /\ DOMAIN inFlight = Forwarders /\ DOMAIN timer = Forwarders /\ DOMAIN timed = Forwarders
      /\ DOMAIN finish = Forwarders /\ DOMAIN taken = Forwarders /\ DOMAIN offered = Forwarders
    BY Numbers DEF Types
<1>1. CASE Offer(f) \/ End(f)
    <2>1. UNCHANGED <<taken, held, slot, inFlight, timer, timed, pc>> /\ finish[f] = "open"
        BY <1>1 DEF Offer, End, sinkVars
    <2>2. QED
        BY <2>1 DEF Control
<1>2. CASE Elapse(f)
    <2>1. /\ UNCHANGED <<offered, finish, taken, held, slot, inFlight, timed, pc>> /\ timer[f] = "armed"
        BY <1>2 DEF Elapse, streamVars, sinkVars
    <2>2. QED
        BY <2>1 DEF Control
<1>3. CASE Poll(f)
    <2>1. /\ UNCHANGED <<offered, finish, taken, held, slot, inFlight, timer, timed>> /\ pc[f] = "parked"
          /\ pc'[f] = IF held[f] # 0 THEN "ready" ELSE "next"
        BY <1>0, <1>3 DEF Poll, Goto, streamVars, sinkVars
    <2>2. QED
        BY <2>1 DEF Control
<1>4. CASE SinkIdle(f) \/ SinkSend(f)
    <2>1. /\ UNCHANGED <<offered, finish, taken>> /\ StartSend(f)
        BY <1>4 DEF SinkIdle, SinkSend, streamVars
    <2>2. /\ held'[f] = 0 /\ inFlight'[f] = FALSE /\ pc'[f] \in {"next", "parked", "done"}
        BY <1>0, <2>1 DEF StartSend, AfterSink
    <2>3. timer'[f] = "none"
        <3>1. timer'[f] = IF pc[f] = "ready" THEN "none" ELSE timer[f]
            BY <1>0, <2>1 DEF StartSend
        <3>2. pc[f] \in {"ready", "flush", "close"}
            BY <2>1 DEF StartSend, AfterSink
        <3>3. QED
            BY <3>1, <3>2 DEF Control
    <2>4. QED
        BY <2>1, <2>2, <2>3 DEF Control
<1>5. CASE SinkDisconnected(f) \/ NextError(f)
    <2>1. /\ held'[f] = 0 /\ inFlight'[f] = FALSE /\ pc'[f] = "failed" /\ timer'[f] = "none"
        BY <1>0, <1>5 DEF SinkDisconnected, NextError, Abandon
    <2>2. QED
        BY <2>1 DEF Control
<1>6. CASE TrySendFull(f)
    <2>1. /\ UNCHANGED <<offered, finish, taken, held, slot, timer, timed, pc>> /\ slot[f] # 0
        BY <1>6 DEF TrySendFull, streamVars
    <2>2. QED
        BY <2>1 DEF Control
<1>7. CASE SendPending(f)
    <2>1. /\ UNCHANGED <<offered, finish, taken, held, slot, inFlight, timer, timed>> /\ inFlight[f]
          /\ pc'[f] = IF pc[f] = "ready" THEN "timer" ELSE "parked"
          /\ pc[f] \in {"ready", "flush", "close"}
        BY <1>0, <1>7 DEF SendPending, AfterPending, Polling, streamVars, sinkVars
    <2>2. QED
        BY <2>1 DEF Control
<1>8. CASE ArmTimer(f)
    <2>1. /\ UNCHANGED <<offered, finish, taken, held, slot, inFlight, pc>> /\ pc[f] = "timer"
          /\ timed'[f] = held[f]
        BY <1>0, <1>8 DEF ArmTimer, streamVars, sinkVars
    <2>2. QED
        BY <2>1 DEF Control
<1>9. CASE TimerPending(f)
    <2>1. /\ UNCHANGED <<offered, finish, taken, held, slot, inFlight, timer, timed>>
          /\ pc[f] = "timer" /\ pc'[f] = "parked"
        BY <1>0, <1>9 DEF TimerPending, Goto, streamVars, sinkVars
    <2>2. QED
        BY <2>1 DEF Control
<1>10. CASE TimedOut(f)
    <2>1. /\ UNCHANGED <<offered, finish, taken, slot, inFlight>>
          /\ pc'[f] = "next" /\ held'[f] = 0 /\ timer'[f] = "none"
        BY <1>0, <1>10 DEF TimedOut, Goto, streamVars, sinkVars
    <2>2. QED
        BY <2>1 DEF Control
<1>11. CASE NextItem(f)
    <2>1. /\ UNCHANGED <<offered, finish, slot, inFlight, timer, timed>>
          /\ pc[f] = "next" /\ pc'[f] = "ready" /\ held'[f] = taken[f] + 1
        BY <1>0, <1>11 DEF NextItem, Goto, streamVars, sinkVars
    <2>2. held'[f] # 0
        BY <1>0, <2>1
    <2>3. QED
        BY <2>1, <2>2 DEF Control
<1>12. CASE NextNone(f) \/ NextPending(f)
    <2>1. /\ UNCHANGED <<offered, finish, taken, held, slot, inFlight, timer, timed>>
          /\ pc[f] = "next" /\ taken[f] = offered[f]
          /\ (pc'[f] = "close" /\ finish[f] = "end") \/ pc'[f] = "flush"
        BY <1>0, <1>12 DEF NextNone, NextPending, Goto, streamVars, sinkVars
    <2>2. QED
        BY <2>1 DEF Control
<1>13. QED
    BY <1>1, <1>2, <1>3, <1>4, <1>5, <1>6, <1>7, <1>8, <1>9, <1>10, <1>11, <1>12 DEF Task

\* The channel never holds more than its capacity.
LEMMA CapacityStep ==
    ASSUME Types, Len(chan) <= Capacity, [Next]_vars
    PROVE  Len(chan') <= Capacity
<1>0. chan \in Seq(Entry) /\ Len(chan) \in Nat /\ Capacity \in Nat
    BY ForwardAssumption DEF Types
<1>1. CASE chan' = chan
    BY <1>1
<1>2. CASE Receive
    <2>1. chan # <<>> /\ chan' = Tail(chan)
        BY <1>2 DEF Receive
    <2>2. Len(Tail(chan)) = Len(chan) - 1
        BY <1>0, <2>1
    <2>3. QED
        BY <1>0, <2>1, <2>2
<1>3. ASSUME NEW f \in Forwarders, SinkSend(f)
      PROVE  Len(chan') <= Capacity
    <2>1. chan' = Append(chan, <<f, slot[f]>>) /\ ~(Len(chan) >= Capacity)
        BY <1>3 DEF SinkSend, Full
    <2>2. Len(chan') = Len(chan) + 1
        BY <1>0, <2>1
    <2>3. QED
        BY <1>0, <2>1, <2>2
<1>4. chan' = chan \/ Receive \/ \E f \in Forwarders : SinkSend(f)
    BY DEF Next, vars, Task, Offer, End, Elapse, Poll, SinkIdle, SinkDisconnected, Abandon, TrySendFull,
           SendPending, ArmTimer, TimerPending, TimedOut, NextItem, NextNone, NextError, NextPending,
           DropReceiver
<1>5. QED
    BY <1>1, <1>2, <1>3, <1>4
-----------------------------------------------------------------------------
(* The invariant. *)

\* A task that was not polled has taken nothing.
LEMMA IInvInit ==
    ASSUME Init
    PROVE  IInv
<1>1. Types /\ Len(chan) <= Capacity
    <2>1. /\ {offered, taken, held, slot, timed} \subseteq [Forwarders -> Nat]
          /\ finish \in [Forwarders -> {"open", "end", "error"}]
          /\ timer \in [Forwarders -> {"none", "armed", "elapsed"}]
          /\ pc \in [Forwarders -> Points]
        BY DEF Init, Points
    <2>2. /\ inFlight \in [Forwarders -> BOOLEAN]
          /\ woken \in [Forwarders -> BOOLEAN] /\ listening \in [Forwarders -> BOOLEAN]
          /\ gone \in BOOLEAN
        BY DEF Init
    <2>3. /\ <<>> \in Seq(Forwarders) /\ <<>> \in Seq(Entry) /\ Len(<<>>) = 0
        OBVIOUS
    <2>4. /\ waiters \in Seq(Forwarders) /\ chan \in Seq(Entry) /\ delivered \in [Forwarders -> Seq(Entry)]
          /\ Len(chan) = 0
        BY <2>3 DEF Init
    <2>5. QED
        BY <2>1, <2>2, <2>4, ForwardAssumption DEF Types
<1>2. ASSUME NEW f \in Forwarders
      PROVE  Bounds(f) /\ Control(f)
    <2>1. Items[f] \in Nat
        BY ForwardAssumption
    <2>2. QED
        BY <2>1 DEF Init, Bounds, Control
<1>3. QED
    BY <1>1, <1>2 DEF IInv

\* Every step keeps the invariant.
LEMMA IInvStep ==
    ASSUME IInv, [Next]_vars
    PROVE  IInv'
<1>0. Types /\ Len(chan) <= Capacity
    BY DEF IInv
<1>1. Types' /\ Len(chan') <= Capacity
    BY <1>0, TypesStep, CapacityStep
<1>2. ASSUME NEW g \in Forwarders
      PROVE  Bounds(g)' /\ Control(g)'
    <2>1. Bounds(g) /\ Control(g)
        BY DEF IInv
    <2>2. CASE Alike(g)
        BY <2>1, <2>2 DEF Alike, Bounds, Control
    <2>3. CASE Task(g) \/ Offer(g) \/ End(g) \/ Elapse(g)
        BY <1>0, <2>1, <2>3, BoundsStep, ControlStep
    <2>4. Alike(g) \/ Task(g) \/ Offer(g) \/ End(g) \/ Elapse(g)
        BY <1>0, OthersAlike, ReceiverAlike DEF Next
    <2>5. QED
        BY <2>2, <2>3, <2>4
<1>3. QED
    BY <1>1, <1>2 DEF IInv

\* IInv is an invariant of the specification.
LEMMA ForwardInductive == Spec => []IInv
<1>1. Init => IInv
    BY IInvInit
<1>2. IInv /\ [Next]_vars => IInv'
    BY IInvStep
<1>3. QED
    BY <1>1, <1>2, PTL DEF Spec

\* Every item gets a full timeout of its own, since poll_ready clears the timer on Ready and
\* on Timeout; and the state keeps its shape.
THEOREM EveryItemHasItsOwnTimer == Spec => []OwnTimer
<1>1. IInv => OwnTimer
    <2> SUFFICES ASSUME IInv PROVE OwnTimer
        OBVIOUS
    <2>1. Types /\ Len(chan) <= Capacity
        BY DEF IInv
    <2>2. ASSUME NEW f \in Forwarders
          PROVE  /\ offered[f] \in 0..Items[f] /\ taken[f] \in 0..offered[f]
                 /\ {held[f], slot[f], timed[f]} \subseteq 0..taken[f]
        <3>1. Bounds(f) /\ {offered[f], taken[f], held[f], slot[f], timed[f], Items[f]} \subseteq Nat
            BY <2>1, Numbers DEF IInv
        <3>2. QED
            BY <3>1 DEF Bounds
    <2>3. ASSUME NEW f \in Forwarders
          PROVE  /\ held[f] # 0 => pc[f] \in {"parked", "ready", "timer"}
                 /\ inFlight[f] => slot[f] # 0
                 /\ timer[f] # "none" => held[f] = timed[f]
        BY DEF IInv, Control
    <2>4. ForwardTypeOK
        BY <2>1, <2>2, <2>3 DEF ForwardTypeOK, Types, Entry
    <2>5. QED
        BY <2>3, <2>4 DEF OwnTimer
<1>2. QED
    BY <1>1, ForwardInductive, PTL
-----------------------------------------------------------------------------
(* The refinement: what is in transit for a forwarder, step by step. *)

Mine(f) == Keep(chan, {f} \X Nat)

\* What Transit joins are sequences of entries.
LEMMA TransitTypes ==
    ASSUME Types, NEW f \in Forwarders
    PROVE  /\ Mine(f) \in Seq(Entry) /\ Present(f, slot[f]) \in Seq(Entry) /\ Present(f, held[f]) \in Seq(Entry)
           /\ Transit(f) = (Mine(f) \o Present(f, slot[f])) \o Present(f, held[f])
           /\ Transit(f) \in Seq(Entry)
<1>1. Mine(f) \in Seq(Entry)
    <2>1. chan \in Seq(Entry)
        BY DEF Types
    <2>2. QED
        BY <2>1, KeepFacts DEF Mine
<1>2. ASSUME NEW n \in Nat
      PROVE  Present(f, n) \in Seq(Entry)
    <2>1. <<f, n>> \in Entry
        BY DEF Entry
    <2>2. QED
        BY <2>1 DEF Present
<1>3. slot[f] \in Nat /\ held[f] \in Nat
    BY Numbers
<1>4. Present(f, slot[f]) \in Seq(Entry) /\ Present(f, held[f]) \in Seq(Entry)
    BY <1>2, <1>3
<1>5. Transit(f) = (Mine(f) \o Present(f, slot[f])) \o Present(f, held[f])
    BY DEF Transit, Mine
<1>6. (Mine(f) \o Present(f, slot[f])) \o Present(f, held[f]) \in Seq(Entry)
    BY <1>1, <1>4
<1>7. QED
    BY <1>1, <1>4, <1>5, <1>6

\* The channel entries of a forwarder depend on the channel alone.
LEMMA MineAlike ==
    ASSUME NEW g \in Forwarders, chan' = chan
    PROVE  Mine(g)' = Mine(g)
BY DEF Mine

\* A step of one task leaves what is in transit for the others where it is,
LEMMA TransitOthers ==
    ASSUME Types, NEW f \in Forwarders, Task(f) \/ Offer(f) \/ End(f) \/ Elapse(f),
           NEW g \in Forwarders, g # f
    PROVE  Transit(g)' = Transit(g) /\ Phase(g)' = Phase(g)
<1>1. Alike(g)
    BY OthersAlike
<1>2. Mine(g)' = Mine(g)
    <2>1. CASE chan' = chan
        BY <2>1, MineAlike
    <2>2. CASE SinkSend(f)
        <3>1. chan' = Append(chan, <<f, slot[f]>>) /\ chan \in Seq(Entry)
            BY <2>2 DEF SinkSend, Types
        <3>2. <<f, slot[f]>> \in Entry /\ <<f, slot[f]>> \notin {g} \X Nat
            BY Numbers DEF Entry
        <3>3. Keep(Append(chan, <<f, slot[f]>>), {g} \X Nat) = Keep(chan, {g} \X Nat)
            BY <3>1, <3>2, KeepFacts
        <3>4. QED
            BY <3>1, <3>3 DEF Mine
    <2>3. chan' = chan \/ SinkSend(f)
        BY DEF Task, Offer, End, Elapse, Poll, SinkIdle, SinkDisconnected, Abandon, TrySendFull,
               SendPending, ArmTimer, TimerPending, TimedOut, NextItem, NextNone, NextError, NextPending
    <2>4. QED
        BY <2>1, <2>2, <2>3
<1>3. Transit(g)' = Transit(g)
    BY <1>1, <1>2 DEF Transit, Mine, Alike
<1>4. Phase(g)' = Phase(g)
    BY <1>1 DEF Phase, Alike
<1>5. QED
    BY <1>3, <1>4

\* so its own entry is all that changes in the functions the mapping defines.
LEMMA OneChanges ==
    ASSUME NEW f \in Forwarders,
           \A g \in Forwarders : g # f => Transit(g)' = Transit(g) /\ Phase(g)' = Phase(g)
    PROVE  /\ [g \in Forwarders |-> Transit(g)]' = [[g \in Forwarders |-> Transit(g)] EXCEPT ![f] = Transit(f)']
           /\ [g \in Forwarders |-> Phase(g)]' = [[g \in Forwarders |-> Phase(g)] EXCEPT ![f] = Phase(f)']
OBVIOUS

\* A task that hands its item to an idle sink keeps it in transit.
LEMMA IdleKeeps ==
    ASSUME Types, NEW f \in Forwarders, Control(f), SinkIdle(f)
    PROVE  Transit(f)' = Transit(f)
<1> DEFINE K == Mine(f)  H == Present(f, held[f])
<1>1. slot[f] = 0 /\ StartSend(f) /\ chan' = chan
    BY DEF SinkIdle
<1>2. slot'[f] = held[f] /\ held'[f] = 0
    BY <1>1 DEF StartSend, AfterSink, Control, Types
<1>3. Transit(f) = (K \o <<>>) \o H
    BY <1>1, TransitTypes DEF Present
<1>4. Transit(f)' = (K \o H) \o <<>>
    <2>1. Transit(f)' = (Keep(chan', {f} \X Nat) \o Present(f, slot'[f])) \o Present(f, held'[f])
        BY DEF Transit, Present
    <2>2. Present(f, slot'[f]) = H /\ Present(f, held'[f]) = <<>>
        BY <1>2 DEF Present
    <2>3. Keep(chan', {f} \X Nat) = K
        BY <1>1 DEF Mine
    <2>4. QED
        BY <2>1, <2>2, <2>3
<1>5. K \in Seq(Entry) /\ H \in Seq(Entry) /\ <<>> \in Seq(Entry)
    BY TransitTypes
<1> HIDE DEF K, H
<1>6. K \o <<>> = K /\ (K \o H) \o <<>> = K \o H
    BY <1>5, ConcatEmptySeq, ConcatProperties
<1>7. QED
    BY <1>3, <1>4, <1>6

\* So does the sink that places its item in the channel.
LEMMA SendKeeps ==
    ASSUME Types, NEW f \in Forwarders, Control(f), SinkSend(f)
    PROVE  Transit(f)' = Transit(f)
<1> DEFINE K == Mine(f)  H == Present(f, held[f])  e == <<f, slot[f]>>
<1>1. slot[f] # 0 /\ StartSend(f) /\ chan' = Append(chan, e) /\ chan \in Seq(Entry)
    BY DEF SinkSend, Types
<1>2. slot'[f] = held[f] /\ held'[f] = 0
    BY <1>1 DEF StartSend, AfterSink, Control, Types
<1>3. e \in Entry /\ e \in {f} \X Nat
    BY Numbers DEF Entry
<1>4. Transit(f) = (K \o <<e>>) \o H
    BY <1>1, TransitTypes DEF Present
<1>5. Transit(f)' = (Append(K, e) \o H) \o <<>>
    <2>1. Transit(f)' = (Keep(chan', {f} \X Nat) \o Present(f, slot'[f])) \o Present(f, held'[f])
        BY DEF Transit, Present
    <2>2. Present(f, slot'[f]) = H /\ Present(f, held'[f]) = <<>>
        BY <1>2 DEF Present
    <2>3. Keep(chan', {f} \X Nat) = Append(K, e)
        <3> HIDE DEF e
        <3>1. Keep(Append(chan, e), {f} \X Nat) = Append(Keep(chan, {f} \X Nat), e)
            <4> DEFINE Own == {f} \X Nat
            <4>1. e \in Own
                BY <1>3
            <4> HIDE DEF Own
            <4>2. Keep(Append(chan, e), Own) = Append(Keep(chan, Own), e)
                BY <1>1, <1>3, <4>1, KeepFacts
            <4>3. QED
                BY <4>2 DEF Own
        <3>2. QED
            BY <1>1, <3>1 DEF Mine
    <2>4. QED
        BY <2>1, <2>2, <2>3
<1>6. K \in Seq(Entry) /\ H \in Seq(Entry)
    BY TransitTypes
<1> HIDE DEF K, H, e
<1>7. K \o <<e>> = Append(K, e) /\ Append(K, e) \in Seq(Entry)
    BY <1>3, <1>6, AppendIsConcat
<1>8. (Append(K, e) \o H) \o <<>> = Append(K, e) \o H
    BY <1>6, <1>7, ConcatEmptySeq, ConcatProperties
<1>9. QED
    BY <1>4, <1>5, <1>7, <1>8

\* An item taken from the stream is the last in transit.
LEMMA TakeAppends ==
    ASSUME Types, NEW f \in Forwarders, Control(f), NextItem(f)
    PROVE  Transit(f)' = Append(Transit(f), <<f, taken[f] + 1>>) /\ taken'[f] = taken[f] + 1
<1> DEFINE K == Mine(f)  S == Present(f, slot[f])  e == <<f, taken[f] + 1>>
<1>1. /\ pc[f] = "next" /\ chan' = chan /\ slot' = slot
      /\ taken'[f] = taken[f] + 1 /\ held'[f] = taken[f] + 1 /\ taken[f] \in Nat
    BY DEF NextItem, Goto, sinkVars, Types
<1>2. held[f] = 0 /\ taken[f] + 1 # 0 /\ e \in Entry
    BY <1>1 DEF Control, Entry
<1>3. Transit(f) = (K \o S) \o <<>>
    BY <1>2, TransitTypes DEF Present
<1>4. Transit(f)' = (K \o S) \o <<e>>
    <2>1. Transit(f)' = (Keep(chan', {f} \X Nat) \o Present(f, slot'[f])) \o Present(f, held'[f])
        BY DEF Transit, Present
    <2>2. Present(f, slot'[f]) = S /\ Present(f, held'[f]) = <<e>>
        BY <1>1, <1>2 DEF Present
    <2>3. Keep(chan', {f} \X Nat) = K
        BY <1>1 DEF Mine
    <2>4. QED
        BY <2>1, <2>2, <2>3
<1>5. K \in Seq(Entry) /\ S \in Seq(Entry)
    BY TransitTypes
<1> HIDE DEF K, S, e
<1>6. K \o S \in Seq(Entry)
    BY <1>5
<1>7. (K \o S) \o <<>> = K \o S /\ (K \o S) \o <<e>> = Append(K \o S, e)
    BY <1>2, <1>6, ConcatEmptySeq, AppendIsConcat
<1>8. QED
    BY <1>1, <1>3, <1>4, <1>7 DEF e

\* A timeout takes the last item in transit, and there is an older one.
LEMMA ExpireShortens ==
    ASSUME Types, NEW f \in Forwarders, Control(f), TimedOut(f)
    PROVE  /\ Len(Transit(f)) >= 2
           /\ Transit(f)' = SubSeq(Transit(f), 1, Len(Transit(f)) - 1)
<1> DEFINE K == Mine(f)  S == Present(f, slot[f])  e == <<f, held[f]>>
<1>1. pc[f] = "timer" /\ chan' = chan /\ slot' = slot /\ held'[f] = 0
    BY DEF TimedOut, Goto, sinkVars, Types
<1>2. held[f] # 0 /\ slot[f] # 0 /\ e \in Entry /\ <<f, slot[f]>> \in Entry
    BY <1>1, Numbers DEF Control, Entry
<1>3. Transit(f) = (K \o S) \o <<e>> /\ Len(S) = 1
    BY <1>2, TransitTypes DEF Present
<1>4. Transit(f)' = (K \o S) \o <<>>
    <2>1. Transit(f)' = (Keep(chan', {f} \X Nat) \o Present(f, slot'[f])) \o Present(f, held'[f])
        BY DEF Transit, Present
    <2>2. Present(f, slot'[f]) = S /\ Present(f, held'[f]) = <<>>
        BY <1>1, <1>2 DEF Present
    <2>3. Keep(chan', {f} \X Nat) = K
        BY <1>1 DEF Mine
    <2>4. QED
        BY <2>1, <2>2, <2>3
<1>5. K \in Seq(Entry) /\ S \in Seq(Entry)
    BY TransitTypes
<1> HIDE DEF K, S, e
<1> DEFINE M == K \o S
<1>6. M \in Seq(Entry) /\ Len(M) = Len(K) + 1 /\ Len(K) \in Nat
    <2>1. Len(S) = 1
        BY <1>3
    <2>2. M \in Seq(Entry) /\ Len(M) = Len(K) + Len(S) /\ Len(K) \in Nat
        BY <1>5
    <2>3. QED
        BY <2>1, <2>2
<1> HIDE DEF M
<1>7. M \o <<>> = M /\ M \o <<e>> = Append(M, e)
    BY <1>2, <1>6, ConcatEmptySeq, AppendIsConcat
<1>8. Len(Append(M, e)) = Len(M) + 1 /\ SubSeq(Append(M, e), 1, Len(M)) = M
    BY <1>2, <1>6
<1>9. Transit(f) = Append(M, e) /\ Transit(f)' = M
    BY <1>3, <1>4, <1>7 DEF M
<1>10. Len(M) + 1 >= 2 /\ (Len(M) + 1) - 1 = Len(M)
    BY <1>6
<1>11. QED
    BY <1>8, <1>9, <1>10

\* A forwarding that fails leaves in transit what is in the channel.
LEMMA FailCuts ==
    ASSUME Types, NEW f \in Forwarders, Abandon(f)
    PROVE  \E n \in 0..Len(Transit(f)) : Transit(f)' = SubSeq(Transit(f), 1, n)
<1> DEFINE K == Mine(f)  S == Present(f, slot[f])  H == Present(f, held[f])
<1>1. chan' = chan /\ slot'[f] = 0 /\ held'[f] = 0
    BY DEF Abandon, Types
<1>2. Transit(f) = (K \o S) \o H
    BY TransitTypes
<1>3. Transit(f)' = (K \o <<>>) \o <<>>
    <2>1. Transit(f)' = (Keep(chan', {f} \X Nat) \o Present(f, slot'[f])) \o Present(f, held'[f])
        BY DEF Transit, Present
    <2>2. Present(f, slot'[f]) = <<>> /\ Present(f, held'[f]) = <<>>
        BY <1>1 DEF Present
    <2>3. Keep(chan', {f} \X Nat) = K
        BY <1>1 DEF Mine
    <2>4. QED
        BY <2>1, <2>2, <2>3
<1>4. K \in Seq(Entry) /\ S \in Seq(Entry) /\ H \in Seq(Entry)
    BY TransitTypes
<1> HIDE DEF K, S, H
<1>5. K \o <<>> = K
    BY <1>4, ConcatEmptySeq
<1> DEFINE R == S \o H
<1>6. R \in Seq(Entry) /\ (K \o S) \o H = K \o R
    <2>1. R \in Seq(Entry)
        BY <1>4
    <2>2. (K \o S) \o H = K \o (S \o H)
        <3> DEFINE E == Entry
        <3>1. K \in Seq(E) /\ S \in Seq(E) /\ H \in Seq(E)
            BY <1>4
        <3> HIDE DEF E
        <3>2. QED
            BY <3>1, ConcatAssociative
    <2>3. QED
        BY <2>1, <2>2
<1> HIDE DEF R
<1>7. Len(K) \in 0..Len(K \o R) /\ SubSeq(K \o R, 1, Len(K)) = K
    BY <1>4, <1>6
<1>8. QED
    BY <1>2, <1>3, <1>5, <1>6, <1>7

\* The receiver takes the first item in transit for its forwarder and none of another.
LEMMA ReceiveTakesFirst ==
    ASSUME Types, Receive, NEW f \in Forwarders, f = Head(chan)[1]
    PROVE  /\ Transit(f) # <<>> /\ Head(Transit(f)) = Head(chan)
           /\ Transit(f)' = Tail(Transit(f))
           /\ \A g \in Forwarders : g # f => Transit(g)' = Transit(g)
<1> DEFINE x == Head(chan)  S == Present(f, slot[f])  H == Present(f, held[f])
           Q == Keep(Tail(chan), {f} \X Nat)
<1>1. /\ chan \in Seq(Entry) /\ chan # <<>> /\ chan' = Tail(chan) /\ Tail(chan) \in Seq(Entry)
      /\ x \in Entry /\ slot' = slot /\ held' = held
    BY DEF Receive, Types, sinkVars
<1>2. \A g \in Forwarders : x \in {g} \X Nat <=> g = f
    BY <1>1 DEF Entry
<1>3. ASSUME NEW g \in Forwarders
      PROVE  Mine(g) = FirstKept(chan, {g} \X Nat) \o Keep(Tail(chan), {g} \X Nat)
    BY <1>1, KeepFacts DEF Mine
<1>4. ASSUME NEW g \in Forwarders, g # f
      PROVE  Transit(g)' = Transit(g)
    <2>1. FirstKept(chan, {g} \X Nat) = <<>>
        BY <1>2, <1>4 DEF FirstKept
    <2>2. Keep(Tail(chan), {g} \X Nat) \in Seq(Entry)
        BY <1>1, KeepFacts
    <2>3. Mine(g) = Keep(Tail(chan), {g} \X Nat)
        BY <1>3, <2>1, <2>2, ConcatEmptySeq
    <2>4. Mine(g)' = Mine(g)
        BY <1>1, <2>3 DEF Mine
    <2>5. QED
        BY <1>1, <2>4 DEF Transit, Mine
<1>5. Mine(f) = <<x>> \o Q
    BY <1>2, <1>3 DEF FirstKept
<1>6. Q \in Seq(Entry) /\ S \in Seq(Entry) /\ H \in Seq(Entry) /\ <<x>> \in Seq(Entry)
    <2>1. Q \in Seq(Entry)
        BY <1>1, KeepFacts
    <2>2. S \in Seq(Entry) /\ H \in Seq(Entry)
        BY TransitTypes
    <2> HIDE DEF x
    <2>3. <<x>> \in Seq(Entry)
        BY <1>1
    <2>4. QED
        BY <2>1, <2>2, <2>3
<1>7. Transit(f) = ((<<x>> \o Q) \o S) \o H
    BY <1>5, TransitTypes
<1>8. Transit(f)' = (Q \o S) \o H
    BY <1>1 DEF Transit, Present
<1> HIDE DEF x, Q, S, H
<1>9. ((<<x>> \o Q) \o S) \o H = <<x>> \o ((Q \o S) \o H)
    <2>1. (<<x>> \o Q) \o S = <<x>> \o (Q \o S)
        BY <1>6, ConcatAssociative
    <2>2. Q \o S \in Seq(Entry)
        BY <1>6
    <2>3. (<<x>> \o (Q \o S)) \o H = <<x>> \o ((Q \o S) \o H)
        BY <1>6, <2>2, ConcatAssociative
    <2>4. QED
        BY <2>1, <2>3
<1> DEFINE R == (Q \o S) \o H
<1>10. R \in Seq(Entry)
    BY <1>6
<1> HIDE DEF R
<1>11. <<x>> \o R # <<>> /\ Head(<<x>> \o R) = x /\ Tail(<<x>> \o R) = R
    BY <1>1, <1>10
<1>12. QED
    BY <1>4, <1>7, <1>8, <1>9, <1>11 DEF R, x
-----------------------------------------------------------------------------
(* The refinement: every step is a step of the relay or leaves it alone. *)

\* Every transit is empty before the first poll.
LEMMA RelayInit ==
    ASSUME Init
    PROVE  Relay!Init
<1>1. ASSUME NEW f \in Forwarders
      PROVE  Transit(f) = <<>> /\ Phase(f) = "open"
    <2>1. chan = <<>> /\ slot[f] = 0 /\ held[f] = 0 /\ pc[f] = "parked"
        BY DEF Init
    <2>2. Keep(<<>>, {f} \X Nat) = <<>>
        BY KeepEmpty
    <2>3. (<<>> \o <<>>) \o <<>> = <<>>
        OBVIOUS
    <2>4. QED
        BY <2>1, <2>2, <2>3 DEF Transit, Present, Phase
<1>2. QED
    BY <1>1 DEF Init, Relay!Init

\* A step that changes nothing a relay knows of.
LEMMA RelayStutter ==
    ASSUME UNCHANGED <<offered, finish, taken, delivered, gone>>,
           \A g \in Forwarders : Transit(g)' = Transit(g) /\ Phase(g)' = Phase(g)
    PROVE  UNCHANGED Relay!relayVars
BY DEF Relay!relayVars

\* Steps that change no item and no phase are the relay's, or none of its steps.
LEMMA RelayQuiet ==
    ASSUME IInv, NEW f \in Forwarders,
           \/ Offer(f) \/ End(f) \/ Elapse(f) \/ Poll(f) \/ TrySendFull(f) \/ SendPending(f)
           \/ ArmTimer(f) \/ TimerPending(f) \/ NextNone(f) \/ NextPending(f)
    PROVE  [Relay!Next]_(Relay!relayVars)
<1>0. Types /\ pc[f] \in Points
    BY Numbers DEF IInv
<1>1. Task(f) \/ Offer(f) \/ End(f) \/ Elapse(f)
    BY DEF Task
<1>2. \A g \in Forwarders : g # f => Transit(g)' = Transit(g) /\ Phase(g)' = Phase(g)
    BY <1>0, <1>1, TransitOthers
<1>3. Transit(f)' = Transit(f)
    <2>1. UNCHANGED <<chan, slot, held>>
        BY DEF Offer, End, Elapse, Poll, TrySendFull, SendPending, ArmTimer, TimerPending, NextNone,
               NextPending, sinkVars
    <2>2. QED
        BY <2>1 DEF Transit
<1>4. Phase(f)' = Phase(f)
    <2>1. /\ pc'[f] \notin {"done", "failed"} \/ pc' = pc
          /\ pc[f] \notin {"done", "failed"} \/ pc' = pc
        BY <1>0 DEF Offer, End, Elapse, Poll, TrySendFull, SendPending, AfterPending, Polling, ArmTimer,
               TimerPending, NextNone, NextPending, Goto, Types
    <2>2. QED
        BY <2>1 DEF Phase
<1>5. \A g \in Forwarders : Transit(g)' = Transit(g) /\ Phase(g)' = Phase(g)
    BY <1>2, <1>3, <1>4
<1>6. CASE Offer(f)
    <2>1. Relay!Offer(f)
        BY <1>5, <1>6 DEF Offer, Relay!Offer
    <2>2. QED
        BY <2>1 DEF Relay!Next
<1>7. CASE End(f)
    <2>1. Relay!End(f)
        BY <1>5, <1>7 DEF End, Relay!End
    <2>2. QED
        BY <2>1 DEF Relay!Next
<1>8. CASE ~Offer(f) /\ ~End(f)
    <2>1. UNCHANGED <<offered, finish, taken, delivered, gone>>
        BY <1>8 DEF Elapse, Poll, TrySendFull, SendPending, ArmTimer, TimerPending, NextNone,
                    NextPending, streamVars
    <2>2. QED
        BY <1>5, <2>1, RelayStutter
<1>9. QED
    BY <1>6, <1>7, <1>8

\* The sink at work is a stutter, or the end of a forwarding whose stream was used up.
LEMMA RelaySink ==
    ASSUME IInv, NEW f \in Forwarders, SinkIdle(f) \/ SinkSend(f)
    PROVE  [Relay!Next]_(Relay!relayVars)
<1>0. Types /\ Control(f)
    BY DEF IInv
<1>1. Task(f) /\ StartSend(f) /\ UNCHANGED <<offered, finish, taken, delivered, gone>>
    BY DEF Task, SinkIdle, SinkSend, streamVars
<1>2. \A g \in Forwarders : g # f => Transit(g)' = Transit(g) /\ Phase(g)' = Phase(g)
    BY <1>0, <1>1, TransitOthers
<1>3. Transit(f)' = Transit(f)
    BY <1>0, IdleKeeps, SendKeeps
<1>4. CASE pc[f] = "close"
    <2>1. finish[f] = "end" /\ taken[f] = offered[f] /\ pc'[f] = "done"
        BY <1>0, <1>1, <1>4 DEF Control, StartSend, AfterSink, Types
    <2>2. Phase(f) = "open" /\ Phase(f)' = "ok"
        BY <1>4, <2>1 DEF Phase
    <2>3. [g \in Forwarders |-> Phase(g)]' = [[g \in Forwarders |-> Phase(g)] EXCEPT ![f] = "ok"]
        BY <1>2, <2>2, OneChanges
    <2>4. Relay!Succeed(f)
        BY <1>1, <1>2, <1>3, <2>1, <2>2, <2>3 DEF Relay!Succeed
    <2>5. QED
        BY <2>4 DEF Relay!Next
<1>5. CASE pc[f] # "close"
    <2>1. pc[f] \in {"ready", "flush"} /\ pc'[f] \in {"next", "parked"}
        BY <1>0, <1>1, <1>5 DEF StartSend, AfterSink, Types
    <2>2. Phase(f)' = Phase(f)
        BY <2>1 DEF Phase
    <2>3. QED
        BY <1>1, <1>2, <1>3, <2>2, RelayStutter
<1>6. QED
    BY <1>4, <1>5

\* An item is taken at the end of the transit.
LEMMA RelayTake ==
    ASSUME IInv, NEW f \in Forwarders, NextItem(f)
    PROVE  Relay!Take(f)
<1>0. Types /\ Control(f)
    BY DEF IInv
<1>1. \A g \in Forwarders : g # f => Transit(g)' = Transit(g) /\ Phase(g)' = Phase(g)
    BY <1>0, TransitOthers DEF Task
<1>2. Transit(f)' = Append(Transit(f), <<f, taken[f] + 1>>) /\ taken'[f] = taken[f] + 1
    BY <1>0, TakeAppends
<1>3. pc[f] = "next" /\ pc'[f] = "ready"
    BY <1>0 DEF NextItem, Goto, Types
<1>4. Phase(f) = "open" /\ Phase(f)' = Phase(f)
    BY <1>3 DEF Phase
<1>5. /\ taken[f] < offered[f] /\ taken' = [taken EXCEPT ![f] = @ + 1]
      /\ UNCHANGED <<offered, finish, delivered, gone>>
    BY DEF NextItem, streamVars
<1>6. [g \in Forwarders |-> Transit(g)]' =
         [[g \in Forwarders |-> Transit(g)] EXCEPT ![f] = Append(@, <<f, taken'[f]>>)]
    BY <1>1, <1>2, OneChanges
<1>7. QED
    BY <1>1, <1>4, <1>5, <1>6 DEF Relay!Take

\* A timeout discards the newest item behind an older one.
LEMMA RelayExpire ==
    ASSUME IInv, NEW f \in Forwarders, TimedOut(f)
    PROVE  Relay!Expire(f)
<1>0. Types /\ Control(f)
    BY DEF IInv
<1>1. \A g \in Forwarders : g # f => Transit(g)' = Transit(g) /\ Phase(g)' = Phase(g)
    BY <1>0, TransitOthers DEF Task
<1>2. Len(Transit(f)) >= 2 /\ Transit(f)' = SubSeq(Transit(f), 1, Len(Transit(f)) - 1)
    BY <1>0, ExpireShortens
<1>3. pc[f] = "timer" /\ pc'[f] = "next"
    BY <1>0 DEF TimedOut, Goto, Types
<1>4. Phase(f) = "open" /\ Phase(f)' = Phase(f)
    BY <1>3 DEF Phase
<1>5. UNCHANGED <<offered, finish, taken, delivered, gone>>
    BY DEF TimedOut, streamVars
<1>6. [g \in Forwarders |-> Transit(g)]' =
         [[g \in Forwarders |-> Transit(g)] EXCEPT ![f] = SubSeq(@, 1, Len(@) - 1)]
    BY <1>1, <1>2, OneChanges
<1>7. QED
    BY <1>1, <1>2, <1>4, <1>5, <1>6 DEF Relay!Expire

\* A forwarding that is abandoned fails, for a reason the relay allows.
LEMMA RelayFail ==
    ASSUME IInv, NEW f \in Forwarders, SinkDisconnected(f) \/ NextError(f)
    PROVE  Relay!Fail(f)
<1>0. Types
    BY DEF IInv
<1>1. \A g \in Forwarders : g # f => Transit(g)' = Transit(g) /\ Phase(g)' = Phase(g)
    BY <1>0, TransitOthers DEF Task
<1>2. Abandon(f)
    BY DEF SinkDisconnected, NextError
<1>3. PICK n \in 0..Len(Transit(f)) : Transit(f)' = SubSeq(Transit(f), 1, n)
    BY <1>0, <1>2, FailCuts
<1>4. /\ pc[f] \in {"ready", "flush", "close", "next"} /\ pc'[f] = "failed"
      /\ gone \/ finish[f] = "error"
    BY <1>0, <1>2 DEF SinkDisconnected, NextError, Polling, Abandon, Types
<1>5. Phase(f) = "open" /\ Phase(f)' = "failed"
    BY <1>4 DEF Phase
<1>6. UNCHANGED <<offered, finish, taken, delivered, gone>>
    BY <1>2 DEF Abandon, streamVars
<1>7. /\ [g \in Forwarders |-> Transit(g)]' =
            [[g \in Forwarders |-> Transit(g)] EXCEPT ![f] = SubSeq(@, 1, n)]
      /\ [g \in Forwarders |-> Phase(g)]' = [[g \in Forwarders |-> Phase(g)] EXCEPT ![f] = "failed"]
    BY <1>1, <1>3, <1>5, OneChanges
<1>8. n \in 0..Len([g \in Forwarders |-> Transit(g)][f])
    BY <1>3
<1>9. QED
    BY <1>4, <1>5, <1>6, <1>7, <1>8 DEF Relay!Fail

\* The receiver takes the first item of one forwarder, or goes.
LEMMA RelayReceiver ==
    ASSUME IInv, Receive \/ DropReceiver
    PROVE  Relay!Next
<1>0. Types
    BY DEF IInv
<1>1. \A g \in Forwarders : Phase(g)' = Phase(g)
    BY DEF Receive, DropReceiver, Phase
<1>2. CASE Receive
    <2>1. chan \in Seq(Entry) /\ chan # <<>> /\ Head(chan) \in Entry
        BY <1>0, <1>2 DEF Types, Receive
    <2>2. PICK f \in Forwarders : f = Head(chan)[1]
        BY <2>1 DEF Entry
    <2>3. /\ Transit(f) # <<>> /\ Head(Transit(f)) = Head(chan)
          /\ Transit(f)' = Tail(Transit(f))
          /\ \A g \in Forwarders : g # f => Transit(g)' = Transit(g)
        BY <1>0, <1>2, <2>2, ReceiveTakesFirst
    <2>4. [g \in Forwarders |-> Transit(g)]' = [[g \in Forwarders |-> Transit(g)] EXCEPT ![f] = Tail(@)]
        BY <1>1, <2>3, OneChanges
    <2>5. /\ ~gone /\ delivered' = [delivered EXCEPT ![f] = Append(@, Head(Transit(f)))]
          /\ UNCHANGED <<offered, finish, taken, gone>>
        BY <1>2, <2>2, <2>3 DEF Receive, streamVars
    <2>6. Relay!Deliver(f)
        BY <1>1, <2>3, <2>4, <2>5 DEF Relay!Deliver
    <2>7. QED
        BY <2>6 DEF Relay!Next
<1>3. CASE DropReceiver
    <2>1. /\ ~gone /\ gone' = TRUE
          /\ UNCHANGED <<offered, finish, taken, delivered, chan, slot, held>>
        BY <1>3 DEF DropReceiver, streamVars, sinkVars
    <2>2. \A g \in Forwarders : Transit(g)' = Transit(g)
        BY <2>1 DEF Transit
    <2>3. Relay!Disconnect
        BY <1>1, <2>1, <2>2 DEF Relay!Disconnect
    <2>4. QED
        BY <2>3 DEF Relay!Next
<1>4. QED
    BY <1>2, <1>3

\* Every step of the forwarders, their streams, timers and the receiver is one of the relay.
LEMMA RelayStep ==
    ASSUME IInv, [Next]_vars
    PROVE  [Relay!Next]_(Relay!relayVars)
<1>1. CASE UNCHANGED vars
    <2>1. UNCHANGED <<offered, finish, taken, delivered, gone, chan, slot, held, pc>>
        BY <1>1 DEF vars
    <2>2. \A g \in Forwarders : Transit(g)' = Transit(g) /\ Phase(g)' = Phase(g)
        BY <2>1 DEF Transit, Phase
    <2>3. QED
        BY <2>1, <2>2, RelayStutter
<1>2. CASE Receive \/ DropReceiver
    BY <1>2, RelayReceiver
<1>3. ASSUME NEW f \in Forwarders, Task(f) \/ Offer(f) \/ End(f) \/ Elapse(f)
      PROVE  [Relay!Next]_(Relay!relayVars)
    <2>1. CASE SinkIdle(f) \/ SinkSend(f)
        BY <2>1, RelaySink
    <2>2. CASE NextItem(f)
        BY <2>2, RelayTake DEF Relay!Next
    <2>3. CASE TimedOut(f)
        BY <2>3, RelayExpire DEF Relay!Next
    <2>4. CASE SinkDisconnected(f) \/ NextError(f)
        BY <2>4, RelayFail DEF Relay!Next
    <2>5. CASE \/ Offer(f) \/ End(f) \/ Elapse(f) \/ Poll(f) \/ TrySendFull(f) \/ SendPending(f)
               \/ ArmTimer(f) \/ TimerPending(f) \/ NextNone(f) \/ NextPending(f)
        BY <2>5, RelayQuiet
    <2>6. QED
        BY <1>3, <2>1, <2>2, <2>3, <2>4, <2>5 DEF Task
<1>4. QED
    BY <1>1, <1>2, <1>3 DEF Next

\* ForwardWithTimeout over TimeoutSink<CrossfireSink> implements LossyRelay: whatever the tasks,
\* the channel, the timers and the receiver do, each stream keeps its order, a timeout discards
\* only the newest item behind an undelivered one, and poll returns Ok only when everything
\* else reached the channel.
THEOREM ForwardingIsALossyRelay == Spec => IsLossyRelay
<1>1. Init => Relay!Init
    BY RelayInit
<1>2. IInv /\ [Next]_vars => [Relay!Next]_(Relay!relayVars)
    BY RelayStep
<1>3. Spec => []IInv
    BY ForwardInductive
<1>4. QED
    BY <1>1, <1>2, <1>3, PTL DEF Spec, IsLossyRelay, Relay!Spec
=============================================================================
