-------------------------- MODULE PoolArbiterProofs --------------------------
(***************************************************************************)
(* Proofs about PoolArbiter, for any number of calls, workers and          *)
(* configuring threads.  All theorems follow from one inductive invariant, *)
(* IInv: the counters can be decremented only because they equal the       *)
(* number of live guards, so typing and accounting are proved together.    *)
(***************************************************************************)
EXTENDS PoolArbiter, ArbiterSetupProofs, FiniteSetTheorems, SequenceTheorems, TLAPS

-----------------------------------------------------------------------------
(* Facts about the operators. *)

\* A nonempty set of naturals contains its minimum.
LEMMA MinInSet ==
    ASSUME NEW I \in SUBSET Nat, I # {}
    PROVE  Min(I) \in I
<1> DEFINE Less == {ss \in Nat \X Nat : ss[1] < ss[2]}
<1>1. IsWellFoundedOn(Less, Nat)
    <2>1. Less = OpToRel(<, Nat)
        BY DEF OpToRel
    <2>2. QED
        BY <2>1, NatLessThanWellFounded, Zenon
<1>2. PICK x \in I : \A y \in I : ~(<<y, x>> \in Less)
    <2> HIDE DEF Less
    <2>1. QED
        BY <1>1, WFMin, Zenon
<1>3. ASSUME NEW y \in I
      PROVE  x <= y
    <2>1. y < x => <<y, x>> \in Less
        OBVIOUS
    <2>2. ~(<<y, x>> \in Less)
        BY <1>2, Zenon
    <2>3. ~(y < x)
        BY <2>1, <2>2, Zenon
    <2>4. QED
        BY <2>3
<1>4. QED
    BY <1>3 DEF Min

\* Removing a listener leaves a list of listeners.
LEMMA RemoveFirstType ==
    ASSUME NEW S, NEW q \in Seq(S), NEW l
    PROVE  RemoveFirst(q, l) \in Seq(S)
<1>1. CASE ~\E i \in 1..Len(q) : q[i] = l
    BY <1>1 DEF RemoveFirst
<1>2. CASE \E i \in 1..Len(q) : q[i] = l
    <2> DEFINE I == {i \in 1..Len(q) : q[i] = l}
               k == Min(I)
    <2>1. k \in 1..Len(q)
        <3>1. I \in SUBSET Nat /\ I # {}
            BY <1>2
        <3>2. k \in I
            BY <3>1, MinInSet
        <3>3. QED
            BY <3>2
    <2>2. SelectInSeq(q, LAMBDA v : v = l) = k
        BY <1>2 DEF SelectInSeq
    <2>3. RemoveFirst(q, l) = SubSeq(q, 1, k - 1) \o SubSeq(q, k + 1, Len(q))
        BY <1>2, <2>2 DEF RemoveFirst, RemoveAt
    <2> HIDE DEF k
    <2>4. /\ SubSeq(q, 1, k - 1) \in Seq(S)
          /\ SubSeq(q, k + 1, Len(q)) \in Seq(S)
        BY <2>1
    <2>5. QED
        BY <2>3, <2>4
<1>3. QED
    BY <1>1, <1>2

\* A notification turns at most one waiting listener into a notified one.
LEMMA NotifyNextEffect ==
    ASSUME NEW C, NEW q \in Seq(C), NEW n \in [C -> Notes], NEW kind \in NotifiedNotes
    PROVE  /\ NotifyNext(q, n, kind) \in [C -> Notes]
           /\ \A x \in C : \/ NotifyNext(q, n, kind)[x] = n[x]
                           \/ n[x] = "waiting" /\ NotifyNext(q, n, kind)[x] = kind
<1> DEFINE pending == {i \in 1..Len(q) : n[q[i]] = "waiting"}
           k == Min(pending)
<1>1. CASE pending = {}
    BY <1>1 DEF NotifyNext
<1>2. CASE pending # {}
    <2>1. pending \in SUBSET Nat
        OBVIOUS
    <2>2. k \in pending
        BY <1>2, <2>1, MinInSet
    <2>3. n[q[k]] = "waiting" /\ q[k] \in C
        BY <2>2
    <2>4. NotifyNext(q, n, kind) = [n EXCEPT ![q[k]] = kind]
        BY <1>2 DEF NotifyNext
    <2> HIDE DEF k
    <2>5. kind \in Notes
        BY DEF Notes, NotifiedNotes
    <2>6. QED
        BY <2>3, <2>4, <2>5
<1>3. QED
    BY <1>1, <1>2

\* Dropping a listener unregisters it and hands on at most its notification.
LEMMA NotesAfterDropEffect ==
    ASSUME NEW C, NEW q \in Seq(C), NEW n \in [C -> Notes], NEW l \in C
    PROVE  /\ NotesAfterDrop(q, n, l) \in [C -> Notes]
           /\ NotesAfterDrop(q, n, l)[l] = "absent"
           /\ \A x \in C \ {l} :
                 \/ NotesAfterDrop(q, n, l)[x] = n[x]
                 \/ n[x] = "waiting" /\ NotesAfterDrop(q, n, l)[x] \in NotifiedNotes
<1> DEFINE rest == [n EXCEPT ![l] = "absent"]
           left == RemoveFirst(q, l)
<1>1. rest \in [C -> Notes] /\ rest[l] = "absent" /\ \A x \in C \ {l} : rest[x] = n[x]
    BY DEF Notes
<1>2. left \in Seq(C)
    BY RemoveFirstType
<1>3. \/ NotesAfterDrop(q, n, l) = rest
      \/ n[l] \in NotifiedNotes /\ NotesAfterDrop(q, n, l) = NotifyNext(left, rest, n[l])
    BY DEF NotesAfterDrop, NotifiedNotes
<1> HIDE DEF rest, left
<1>4. CASE NotesAfterDrop(q, n, l) = rest
    BY <1>1, <1>4
<1>5. CASE n[l] \in NotifiedNotes /\ NotesAfterDrop(q, n, l) = NotifyNext(left, rest, n[l])
    <2>1. /\ NotifyNext(left, rest, n[l]) \in [C -> Notes]
          /\ \A x \in C : \/ NotifyNext(left, rest, n[l])[x] = rest[x]
                          \/ /\ rest[x] = "waiting"
                             /\ NotifyNext(left, rest, n[l])[x] = n[l]
        BY <1>1, <1>2, <1>5, NotifyNextEffect
    <2>2. QED
        BY <1>1, <1>5, <2>1
<1>6. QED
    BY <1>3, <1>4, <1>5

\* Removing one listener keeps every other in the list.
LEMMA RemoveFirstKeeps ==
    ASSUME NEW S, NEW q \in Seq(S), NEW l, NEW i \in 1..Len(q), q[i] # l
    PROVE  \E j \in 1..Len(RemoveFirst(q, l)) : RemoveFirst(q, l)[j] = q[i]
<1>1. CASE ~\E j \in 1..Len(q) : q[j] = l
    BY <1>1 DEF RemoveFirst
<1>2. CASE \E j \in 1..Len(q) : q[j] = l
    <2> DEFINE I == {j \in 1..Len(q) : q[j] = l}
               k == Min(I)
    <2>1. k \in 1..Len(q) /\ q[k] = l
        <3>1. I \in SUBSET Nat /\ I # {}
            BY <1>2
        <3>2. k \in I
            BY <3>1, MinInSet
        <3>3. QED
            BY <3>2
    <2>2. SelectInSeq(q, LAMBDA v : v = l) = k
        BY <1>2 DEF SelectInSeq
    <2>3. RemoveFirst(q, l) = SubSeq(q, 1, k - 1) \o SubSeq(q, k + 1, Len(q))
        BY <1>2, <2>2 DEF RemoveFirst, RemoveAt
    <2> HIDE DEF k
    <2> DEFINE a == SubSeq(q, 1, k - 1)
               b == SubSeq(q, k + 1, Len(q))
    <2>4. /\ a \in Seq(S) /\ Len(a) = k - 1 /\ \A j \in 1 .. k - 1 : a[j] = q[j]
          /\ b \in Seq(S) /\ Len(b) = Len(q) - k /\ \A j \in 1 .. Len(q) - k : b[j] = q[k + j]
        BY <2>1
    <2> HIDE DEF a, b
    <2>5. /\ Len(a \o b) = Len(a) + Len(b)
          /\ \A j \in 1 .. Len(a) + Len(b) :
                (a \o b)[j] = IF j <= Len(a) THEN a[j] ELSE b[j - Len(a)]
        BY <2>4, ConcatProperties
    <2> DEFINE n == Len(q)
    <2>6. n \in Nat /\ k \in 1..n /\ i \in 1..n /\ Len(a) = k - 1 /\ Len(b) = n - k
        BY <2>1, <2>4
    <2>7. CASE i < k
        <3>1. i \in 1 .. k - 1 /\ i \in 1 .. Len(a) + Len(b) /\ i <= Len(a)
            <4> HIDE DEF n
            <4>1. QED
                BY <2>6, <2>7
        <3>2. (a \o b)[i] = q[i]
            BY <2>4, <2>5, <3>1
        <3>3. QED
            BY <2>3, <2>5, <3>1, <3>2 DEF a, b
    <2>8. CASE i > k
        <3>1. /\ i - 1 \in 1 .. Len(a) + Len(b) /\ ~(i - 1 <= Len(a))
              /\ (i - 1) - Len(a) = i - k /\ i - k \in 1 .. n - k /\ k + (i - k) = i
            <4> HIDE DEF n
            <4>1. QED
                BY <2>6, <2>8
        <3>2. (a \o b)[i - 1] = b[i - k]
            BY <2>5, <3>1
        <3>3. b[i - k] = q[i]
            BY <2>4, <3>1
        <3>4. QED
            BY <2>3, <2>5, <3>1, <3>2, <3>3 DEF a, b
    <2>9. QED
        BY <2>1, <2>7, <2>8
<1>3. QED
    BY <1>1, <1>2

\* The listeners of n that wait for a notification are in the list q.
InList(q, n, C) == \A x \in C : n[x] = "waiting" => \E i \in 1..Len(q) : q[i] = x

\* A notification finds a listener when one is waiting.
LEMMA NotifyNextWakes ==
    ASSUME NEW C, NEW q \in Seq(C), NEW n \in [C -> Notes], NEW kind \in NotifiedNotes,
           \E i \in 1..Len(q) : n[q[i]] = "waiting"
    PROVE  \E x \in C : n[x] = "waiting" /\ NotifyNext(q, n, kind)[x] = kind
<1> DEFINE pending == {i \in 1..Len(q) : n[q[i]] = "waiting"}
           k == Min(pending)
<1>1. pending # {} /\ pending \in SUBSET Nat
    OBVIOUS
<1>2. k \in pending
    BY <1>1, MinInSet
<1>3. n[q[k]] = "waiting" /\ q[k] \in C
    BY <1>2
<1>4. NotifyNext(q, n, kind) = [n EXCEPT ![q[k]] = kind]
    BY <1>1 DEF NotifyNext
<1> HIDE DEF k, pending
<1>5. QED
    BY <1>3, <1>4

\* A notified listener that is dropped while another waits leaves a notified one behind.
LEMMA NotesAfterDropWakes ==
    ASSUME NEW C, NEW q \in Seq(C), NEW n \in [C -> Notes], NEW l \in C, n[l] \in NotifiedNotes,
           InList(q, n, C), NEW x \in C, x # l, NotesAfterDrop(q, n, l)[x] = "waiting"
    PROVE  \E e \in C : e # l /\ NotesAfterDrop(q, n, l)[e] \in NotifiedNotes
<1> DEFINE rest == [n EXCEPT ![l] = "absent"]
           left == RemoveFirst(q, l)
<1>1. rest \in [C -> Notes] /\ rest[l] = "absent" /\ \A y \in C \ {l} : rest[y] = n[y]
    BY DEF Notes
<1>2. left \in Seq(C)
    BY RemoveFirstType
<1>3. n[x] = "waiting"
    BY NotesAfterDropEffect DEF NotifiedNotes
<1>4. \E j \in 1..Len(left) : left[j] = x
    <2>1. PICK i \in 1..Len(q) : q[i] = x
        BY <1>3 DEF InList
    <2>2. QED
        BY <2>1, RemoveFirstKeeps
<1>5. \/ NotesAfterDrop(q, n, l) = NotifyNext(left, rest, n[l])
      \/ /\ NotesAfterDrop(q, n, l) = rest
         /\ \E i \in 1..Len(left) : rest[left[i]] \in NotifiedNotes
    BY DEF NotesAfterDrop, NotifiedNotes
<1> HIDE DEF rest, left
<1>6. CASE NotesAfterDrop(q, n, l) = NotifyNext(left, rest, n[l])
    <2>1. \E i \in 1..Len(left) : rest[left[i]] = "waiting"
        BY <1>1, <1>3, <1>4
    <2>2. PICK e \in C : rest[e] = "waiting" /\ NotifyNext(left, rest, n[l])[e] = n[l]
        BY <1>1, <1>2, <2>1, NotifyNextWakes
    <2>3. QED
        BY <1>1, <1>6, <2>2
<1>7. CASE /\ NotesAfterDrop(q, n, l) = rest
           /\ \E i \in 1..Len(left) : rest[left[i]] \in NotifiedNotes
    <2>1. PICK i \in 1..Len(left) : rest[left[i]] \in NotifiedNotes
        BY <1>7
    <2>2. left[i] \in C /\ left[i] # l
        BY <1>1, <1>2, <2>1 DEF NotifiedNotes
    <2>3. QED
        BY <1>7, <2>1, <2>2
<1>8. QED
    BY <1>5, <1>6, <1>7

\* Between f and g, the members of D that stand in H change by c alone.
OnlyOneMoved(D, f, g, H, c) ==
    /\ Cardinality(Standing(D, f, H)) \in Nat
    /\ Cardinality(Standing(D, g, H)) \in Nat
    /\ Cardinality(Standing(D, g, H))
         = Cardinality(Standing(D, f, H))
             + (IF c \in D /\ g[c] \in H THEN 1 ELSE 0)
             - (IF c \in D /\ f[c] \in H THEN 1 ELSE 0)

\* One element moves: the number of elements of D standing at a point of H
\* changes by what the move adds and takes away.
LEMMA CountMove ==
    ASSUME NEW D, IsFiniteSet(D), NEW f, NEW g, NEW H, NEW c,
           \A x \in D : x # c => g[x] = f[x]
    PROVE  OnlyOneMoved(D, f, g, H, c)
<1> DEFINE S == {x \in D : f[x] \in H}
           T == {x \in D : g[x] \in H}
           R == S \ {c}
<1>1. IsFiniteSet(S) /\ Cardinality(S) \in Nat
    <2>1. S \in SUBSET D
        OBVIOUS
    <2>2. IsFiniteSet(S)
        BY <2>1, FS_Subset
    <2>3. QED
        BY <2>2, FS_CardinalityType
<1>2. c \in S <=> c \in D /\ f[c] \in H
    OBVIOUS
<1>3. T = IF c \in D /\ g[c] \in H THEN R \cup {c} ELSE R
    OBVIOUS
<1>4. IsFiniteSet(R) /\ Cardinality(R) = IF c \in S THEN Cardinality(S) - 1 ELSE Cardinality(S)
    BY <1>1, FS_RemoveElement
<1>5. Cardinality(R \cup {c}) = Cardinality(R) + 1
    <2>1. c \notin R
        OBVIOUS
    <2>2. QED
        BY <1>4, <2>1, FS_AddElement
<1>6. Cardinality(R) \in Nat
    BY <1>4, FS_CardinalityType
<1> HIDE DEF S, T, R
<1>7. Cardinality(T) = IF c \in D /\ g[c] \in H THEN Cardinality(R) + 1 ELSE Cardinality(R)
    BY <1>3, <1>5
<1>8. /\ Cardinality(S) \in Nat
      /\ Cardinality(T) \in Nat
      /\ Cardinality(T) = Cardinality(S) + (IF c \in D /\ g[c] \in H THEN 1 ELSE 0)
                                         - (IF c \in D /\ f[c] \in H THEN 1 ELSE 0)
    BY <1>1, <1>2, <1>4, <1>6, <1>7
<1>9. Standing(D, f, H) = S /\ Standing(D, g, H) = T
    BY DEF Standing, S, T
<1>10. QED
    BY <1>8, <1>9 DEF OnlyOneMoved
-----------------------------------------------------------------------------
(* One future, or one worker, moves. *)

\* The calls and the workers are finite in number.
LEMMA FiniteSetsOfModel ==
    /\ IsFiniteSet(Decoders) /\ IsFiniteSet(Encoders)
    /\ IsFiniteSet(Calls) /\ IsFiniteSet(Workers)
    /\ Decoders \in SUBSET Calls /\ Encoders \in SUBSET Calls
BY PoolAssumption, FS_Subset DEF Calls

\* What a move of one call's future does to the guard counts.
LEMMA FutureMove ==
    ASSUME TypeOK, NEW c \in Calls, NEW from, NEW to, At(c, from, to)
    PROVE  /\ Cardinality(DecodeHolders) \in Nat
           /\ Cardinality(EncodeHolders) \in Nat
           /\ Cardinality(Rejecting) \in Nat /\ Cardinality(Rejecting') \in Nat
           /\ Cardinality(DecodeHolders')
                = Cardinality(DecodeHolders)
                    + (IF c \in Decoders /\ to \in Holding THEN 1 ELSE 0)
                    - (IF c \in Decoders /\ from \in Holding THEN 1 ELSE 0)
           /\ Cardinality(EncodeHolders')
                = Cardinality(EncodeHolders)
                    + (IF c \in Encoders /\ to \in Holding THEN 1 ELSE 0)
                    - (IF c \in Encoders /\ from \in Holding THEN 1 ELSE 0)
           /\ Cardinality(Rejecting')
                = Cardinality(Rejecting) + (IF to = "reject" THEN 1 ELSE 0)
                                         - (IF from = "reject" THEN 1 ELSE 0)
<1>1. pc[c] = from /\ pc'[c] = to /\ \A x \in Calls : x # c => pc'[x] = pc[x]
    BY DEF TypeOK, At
<1>2. /\ DecodeHolders = Standing(Decoders, pc, Holding)
      /\ EncodeHolders = Standing(Encoders, pc, Holding)
      /\ Rejecting = Standing(Calls, pc, {"reject"})
    BY DEF DecodeHolders, EncodeHolders, Rejecting
<1>3. /\ DecodeHolders' = Standing(Decoders, pc', Holding)
      /\ EncodeHolders' = Standing(Encoders, pc', Holding)
      /\ Rejecting' = Standing(Calls, pc', {"reject"})
    BY DEF DecodeHolders, EncodeHolders, Rejecting, Standing, Holding
<1>4. ASSUME NEW D \in SUBSET Calls, IsFiniteSet(D), NEW H
      PROVE  /\ Cardinality(Standing(D, pc, H)) \in Nat
             /\ Cardinality(Standing(D, pc', H)) \in Nat
             /\ Cardinality(Standing(D, pc', H))
                  = Cardinality(Standing(D, pc, H))
                      + (IF c \in D /\ to \in H THEN 1 ELSE 0)
                      - (IF c \in D /\ from \in H THEN 1 ELSE 0)
    <2>1. \A x \in D : x # c => pc'[x] = pc[x]
        BY <1>1
    <2>2. OnlyOneMoved(D, pc, pc', H, c)
        BY <1>4, <2>1, CountMove, Zenon
    <2>3. pc'[c] = to /\ pc[c] = from
        BY <1>1
    <2>4. QED
        BY <2>2, <2>3 DEF OnlyOneMoved
<1>5. IsFiniteSet(Decoders) /\ IsFiniteSet(Encoders) /\ IsFiniteSet(Calls)
    BY FiniteSetsOfModel
<1>6. QED
    BY <1>2, <1>3, <1>4, <1>5 DEF Calls

\* What a move of one worker does to the numbers of running and busy workers.
LEMMA WorkerMove ==
    ASSUME TypeOK, NEW w \in Workers, NEW from, NEW to \in WorkerPoints,
           WorkerAt(w, from, to)
    PROVE  /\ Cardinality(RunningWorkers) \in Nat
           /\ Cardinality(BusyWorkers) \in Nat /\ Cardinality(BusyWorkers') \in Nat
           /\ Cardinality(RunningWorkers')
                = Cardinality(RunningWorkers)
                    + (IF to \in {"run", "exit"} THEN 1 ELSE 0)
                    - (IF from \in {"run", "exit"} THEN 1 ELSE 0)
           /\ Cardinality(BusyWorkers')
                = Cardinality(BusyWorkers) + (IF to # "idle" THEN 1 ELSE 0)
                                           - (IF from # "idle" THEN 1 ELSE 0)
<1>1. /\ wpc[w] = from /\ wpc'[w] = to /\ from \in WorkerPoints
      /\ \A x \in Workers : x # w => wpc'[x] = wpc[x]
    BY DEF TypeOK, WorkerAt
<1>2. /\ RunningWorkers = Standing(Workers, wpc, {"run", "exit"})
      /\ BusyWorkers = Standing(Workers, wpc, WorkerPoints \ {"idle"})
    BY DEF RunningWorkers, BusyWorkers
<1>3. /\ RunningWorkers' = Standing(Workers, wpc', {"run", "exit"})
      /\ BusyWorkers' = Standing(Workers, wpc', WorkerPoints \ {"idle"})
    BY DEF RunningWorkers, BusyWorkers, Standing, WorkerPoints
<1>4. ASSUME NEW H
      PROVE  /\ Cardinality(Standing(Workers, wpc, H)) \in Nat
             /\ Cardinality(Standing(Workers, wpc', H)) \in Nat
             /\ Cardinality(Standing(Workers, wpc', H))
                  = Cardinality(Standing(Workers, wpc, H))
                      + (IF to \in H THEN 1 ELSE 0)
                      - (IF from \in H THEN 1 ELSE 0)
    <2>1. IsFiniteSet(Workers)
        BY FiniteSetsOfModel
    <2>2. OnlyOneMoved(Workers, wpc, wpc', H, w)
        BY <1>1, <2>1, CountMove, Zenon
    <2>3. QED
        BY <1>1, <2>2 DEF OnlyOneMoved
<1>5. QED
    BY <1>1, <1>2, <1>3, <1>4

\* A step that moves no future, or no worker, leaves their counts alone.
LEMMA FutureStill ==
    ASSUME UNCHANGED pc
    PROVE  DecodeHolders' = DecodeHolders /\ EncodeHolders' = EncodeHolders /\ Rejecting' = Rejecting
BY DEF DecodeHolders, EncodeHolders, Rejecting, Standing, Holding

\* So does one that moves no worker, for the workers' counts.
LEMMA WorkerStill ==
    ASSUME UNCHANGED wpc
    PROVE  RunningWorkers' = RunningWorkers /\ BusyWorkers' = BusyWorkers
BY DEF RunningWorkers, BusyWorkers, Standing, WorkerPoints

\* All five counts are natural numbers, in both states of a step.
LEMMA CountsAreNat ==
    /\ Cardinality(DecodeHolders) \in Nat /\ Cardinality(EncodeHolders) \in Nat
    /\ Cardinality(RunningWorkers) \in Nat /\ Cardinality(BusyWorkers) \in Nat
    /\ Cardinality(Rejecting) \in Nat
    /\ Cardinality(DecodeHolders') \in Nat /\ Cardinality(EncodeHolders') \in Nat
    /\ Cardinality(RunningWorkers') \in Nat /\ Cardinality(BusyWorkers') \in Nat
    /\ Cardinality(Rejecting') \in Nat
<1>1. /\ DecodeHolders \in SUBSET Decoders /\ DecodeHolders' \in SUBSET Decoders
      /\ EncodeHolders \in SUBSET Encoders /\ EncodeHolders' \in SUBSET Encoders
      /\ Rejecting \in SUBSET Calls /\ Rejecting' \in SUBSET Calls
      /\ RunningWorkers \in SUBSET Workers /\ RunningWorkers' \in SUBSET Workers
      /\ BusyWorkers \in SUBSET Workers /\ BusyWorkers' \in SUBSET Workers
    BY DEF DecodeHolders, EncodeHolders, Rejecting, RunningWorkers, BusyWorkers, Standing
<1>2. ASSUME NEW S \in {Decoders, Encoders, Calls, Workers}, NEW T \in SUBSET S
      PROVE  Cardinality(T) \in Nat
    <2>1. IsFiniteSet(T)
        BY FiniteSetsOfModel, FS_Subset
    <2>2. QED
        BY <2>1, FS_CardinalityType
<1>3. QED
    BY <1>1, <1>2
-----------------------------------------------------------------------------
(* The counters stay exact. *)

\* A step of a future in which nothing but OUTSTANDING, the tagged counters and
\* the queue can move.
LEMMA FutureCounters ==
    ASSUME IInv, NEW c \in Calls, Admission(c) \/ Spawn(c) \/ Timeout(c)
    PROVE  CountersExact'
<1> USE DEF IInv
<1>1. /\ Cardinality(DecodeHolders) \in Nat /\ Cardinality(EncodeHolders) \in Nat
      /\ Cardinality(Rejecting) \in Nat /\ Cardinality(BusyWorkers) \in Nat
      /\ Cardinality(RunningWorkers) \in Nat
      /\ Len(queue) \in Nat
    BY CountsAreNat DEF TypeOK
<1>2. /\ decodeOutstanding = Cardinality(DecodeHolders)
      /\ encodeOutstanding = Cardinality(EncodeHolders)
      /\ running = Cardinality(RunningWorkers)
      /\ outstanding = Cardinality(Rejecting) + Len(queue) + Cardinality(BusyWorkers)
    BY DEF CountersExact
<1>3. c \notin Decoders \/ c \notin Encoders
    BY PoolAssumption
<1>4. ASSUME UNCHANGED wpc
      PROVE  /\ Cardinality(RunningWorkers') = Cardinality(RunningWorkers)
             /\ Cardinality(BusyWorkers') = Cardinality(BusyWorkers)
    BY <1>4, WorkerStill
<1>5. ASSUME NEW from \in FuturePoints, NEW to \in FuturePoints, At(c, from, to)
      PROVE  /\ Cardinality(DecodeHolders')
                  = Cardinality(DecodeHolders)
                      + (IF c \in Decoders /\ to \in Holding THEN 1 ELSE 0)
                      - (IF c \in Decoders /\ from \in Holding THEN 1 ELSE 0)
             /\ Cardinality(EncodeHolders')
                  = Cardinality(EncodeHolders)
                      + (IF c \in Encoders /\ to \in Holding THEN 1 ELSE 0)
                      - (IF c \in Encoders /\ from \in Holding THEN 1 ELSE 0)
             /\ Cardinality(Rejecting')
                  = Cardinality(Rejecting) + (IF to = "reject" THEN 1 ELSE 0)
                                           - (IF from = "reject" THEN 1 ELSE 0)
    BY <1>5, FutureMove
<1>6. CASE \/ AdmitEntry(c) \/ AdmitHead(c) \/ LoadOccupancy(c) \/ LoadReserve(c)
           \/ LoadDecode(c) \/ LoadRunning(c) \/ LoadEncode(c) \/ CasRetry(c)
           \/ Listen(c) \/ Recheck(c) \/ Wake(c) \/ DropParked(c) \/ TaggedNotify(c)
    <2>1. /\ UNCHANGED <<counters, pool>>
          /\ \E from \in FuturePoints \ Holding, to \in FuturePoints \ Holding : At(c, from, to)
        BY <1>6 DEF AdmitEntry, AdmitHead, LoadOccupancy, LoadReserve, LoadDecode, LoadRunning,
                    LoadEncode, CasRetry, Listen, Recheck, Wake, DropParked, TaggedNotify,
                    FuturePoints, Holding
    <2>2. /\ Cardinality(DecodeHolders') = Cardinality(DecodeHolders)
          /\ Cardinality(EncodeHolders') = Cardinality(EncodeHolders)
          /\ Cardinality(Rejecting') = Cardinality(Rejecting)
        BY <1>1, <1>5, <2>1 DEF Holding
    <2>3. QED
        BY <1>2, <1>4, <2>1, <2>2 DEF CountersExact, counters, pool
<1>7. CASE AdmitPass(c) \/ CasReserve(c)
    <2>1. c \in Decoders
        BY <1>7 DEF AdmitPass, CasReserve, At, AdmissionInv, AdmissionOK, AdmissionPoints
    <2>2. /\ decodeOutstanding' = decodeOutstanding + 1
          /\ UNCHANGED <<encodeOutstanding, running, outstanding, pool>>
          /\ At(c, "pass", "submit") \/ At(c, "cas", "submit")
        BY <1>7 DEF AdmitPass, CasReserve
    <2>3. /\ Cardinality(DecodeHolders') = Cardinality(DecodeHolders) + 1
          /\ Cardinality(EncodeHolders') = Cardinality(EncodeHolders)
          /\ Cardinality(Rejecting') = Cardinality(Rejecting)
        BY <1>1, <1>3, <1>5, <2>1, <2>2 DEF Holding, FuturePoints
    <2>4. QED
        BY <1>2, <1>4, <2>2, <2>3 DEF CountersExact, pool
<1>8. CASE EncodeEntry(c)
    <2>1. /\ Cardinality(DecodeHolders') = Cardinality(DecodeHolders)
          /\ Cardinality(EncodeHolders') = Cardinality(EncodeHolders) + 1
          /\ Cardinality(Rejecting') = Cardinality(Rejecting)
        BY <1>1, <1>3, <1>5, <1>8 DEF EncodeEntry, Holding, FuturePoints
    <2>2. QED
        BY <1>2, <1>4, <1>8, <2>1 DEF EncodeEntry, CountersExact, pool
<1>9. CASE SubmitAccepted(c)
    <2>1. /\ Cardinality(DecodeHolders') = Cardinality(DecodeHolders)
          /\ Cardinality(EncodeHolders') = Cardinality(EncodeHolders)
          /\ Cardinality(Rejecting') = Cardinality(Rejecting)
        BY <1>1, <1>5, <1>9 DEF SubmitAccepted, Holding, FuturePoints
    <2>2. Len(queue') = Len(queue) + 1
        BY <1>9 DEF SubmitAccepted, TypeOK
    <2>3. QED
        BY <1>1, <1>2, <1>4, <1>9, <2>1, <2>2 DEF SubmitAccepted, CountersExact
<1>10. CASE SubmitRejected(c)
    <2>1. /\ Cardinality(DecodeHolders') = Cardinality(DecodeHolders)
          /\ Cardinality(EncodeHolders') = Cardinality(EncodeHolders)
          /\ Cardinality(Rejecting') = Cardinality(Rejecting) + 1
        BY <1>1, <1>5, <1>10 DEF SubmitRejected, Holding, FuturePoints
    <2>2. QED
        BY <1>1, <1>2, <1>4, <1>10, <2>1 DEF SubmitRejected, CountersExact, pool
<1>11. ASSUME NEW from \in {"reject", "waiting"}, At(c, from, Leave(c))
       PROVE  /\ Cardinality(DecodeHolders') = Cardinality(DecodeHolders)
              /\ Cardinality(EncodeHolders') = Cardinality(EncodeHolders)
              /\ Cardinality(Rejecting')
                   = Cardinality(Rejecting) - (IF from = "reject" THEN 1 ELSE 0)
    <2>1. Leave(c) \in {"release", "done"}
        BY DEF Leave
    <2>2. c \in Decoders \/ c \in Encoders => Leave(c) = "release"
        BY DEF Leave, Tagged
    <2>3. QED
        BY <1>1, <1>5, <1>11, <2>1, <2>2 DEF Holding, FuturePoints
<1>12. CASE DropRejectedSlot(c)
    BY <1>1, <1>2, <1>4, <1>11, <1>12 DEF DropRejectedSlot, CountersExact, pool
<1>13. CASE Complete(c) \/ DropWaiting(c)
    BY <1>1, <1>2, <1>4, <1>11, <1>13 DEF Complete, DropWaiting, CountersExact, counters
<1>14. CASE TaggedRelease(c)
    <2>1. /\ Cardinality(DecodeHolders')
               = Cardinality(DecodeHolders) - (IF c \in Decoders THEN 1 ELSE 0)
          /\ Cardinality(EncodeHolders')
               = Cardinality(EncodeHolders) - (IF c \in Encoders THEN 1 ELSE 0)
          /\ Cardinality(Rejecting') = Cardinality(Rejecting)
        BY <1>1, <1>5, <1>14 DEF TaggedRelease, Holding, FuturePoints
    <2>2. QED
        BY <1>2, <1>4, <1>14, <2>1 DEF TaggedRelease, CountersExact, pool
<1>15. QED
    BY <1>6, <1>7, <1>8, <1>9, <1>10, <1>12, <1>13, <1>14 DEF Admission, Spawn, Timeout

\* The closure of cancellable_task takes, moves and releases its guards exactly.
LEMMA WorkerCounters ==
    ASSUME IInv, NEW w \in Workers, Work(w)
    PROVE  CountersExact'
<1> USE DEF IInv
<1>1. /\ Cardinality(Rejecting) \in Nat /\ Cardinality(BusyWorkers) \in Nat
      /\ Cardinality(RunningWorkers) \in Nat /\ Len(queue) \in Nat
    BY CountsAreNat DEF TypeOK
<1>2. /\ decodeOutstanding = Cardinality(DecodeHolders)
      /\ encodeOutstanding = Cardinality(EncodeHolders)
      /\ running = Cardinality(RunningWorkers)
      /\ outstanding = Cardinality(Rejecting) + Len(queue) + Cardinality(BusyWorkers)
    BY DEF CountersExact
<1>3. /\ DecodeHolders' = DecodeHolders /\ EncodeHolders' = EncodeHolders
      /\ Rejecting' = Rejecting
      /\ UNCHANGED <<decodeOutstanding, encodeOutstanding>>
    <2>1. UNCHANGED <<pc, decodeOutstanding, encodeOutstanding>>
        BY DEF Work, StartSkipped, StartRunning, SendResult, RunningExit, RunningNotify,
               SlotRelease, counters
    <2>2. QED
        BY <2>1, FutureStill
<1>4. ASSUME NEW from \in WorkerPoints, NEW to \in WorkerPoints, WorkerAt(w, from, to)
      PROVE  /\ Cardinality(RunningWorkers')
                  = Cardinality(RunningWorkers)
                      + (IF to \in {"run", "exit"} THEN 1 ELSE 0)
                      - (IF from \in {"run", "exit"} THEN 1 ELSE 0)
             /\ Cardinality(BusyWorkers')
                  = Cardinality(BusyWorkers) + (IF to # "idle" THEN 1 ELSE 0)
                                             - (IF from # "idle" THEN 1 ELSE 0)
    BY <1>4, WorkerMove
<1>5. queue # <<>> => Len(Tail(queue)) = Len(queue) - 1
    BY DEF TypeOK
<1>6. CASE StartSkipped(w)
    <2>1. /\ Cardinality(RunningWorkers') = Cardinality(RunningWorkers)
          /\ Cardinality(BusyWorkers') = Cardinality(BusyWorkers) + 1
        BY <1>1, <1>4, <1>6 DEF StartSkipped, WorkerPoints
    <2>2. QED
        BY <1>1, <1>2, <1>3, <1>5, <1>6, <2>1 DEF StartSkipped, CountersExact, counters
<1>7. CASE StartRunning(w)
    <2>1. /\ Cardinality(RunningWorkers') = Cardinality(RunningWorkers) + 1
          /\ Cardinality(BusyWorkers') = Cardinality(BusyWorkers) + 1
        BY <1>1, <1>4, <1>7 DEF StartRunning, WorkerPoints
    <2>2. QED
        BY <1>1, <1>2, <1>3, <1>5, <1>7, <2>1 DEF StartRunning, CountersExact
<1>8. CASE SendResult(w) \/ RunningNotify(w)
    <2>1. /\ Cardinality(RunningWorkers') = Cardinality(RunningWorkers)
          /\ Cardinality(BusyWorkers') = Cardinality(BusyWorkers)
        BY <1>1, <1>4, <1>8 DEF SendResult, RunningNotify, WorkerPoints
    <2>2. QED
        BY <1>2, <1>3, <1>8, <2>1 DEF SendResult, RunningNotify, CountersExact, counters
<1>9. CASE RunningExit(w)
    <2>1. /\ Cardinality(RunningWorkers') = Cardinality(RunningWorkers) - 1
          /\ Cardinality(BusyWorkers') = Cardinality(BusyWorkers)
        BY <1>1, <1>4, <1>9 DEF RunningExit, WorkerPoints
    <2>2. QED
        BY <1>2, <1>3, <1>9, <2>1 DEF RunningExit, CountersExact
<1>10. CASE SlotRelease(w)
    <2>1. /\ Cardinality(RunningWorkers') = Cardinality(RunningWorkers)
          /\ Cardinality(BusyWorkers') = Cardinality(BusyWorkers) - 1
        BY <1>1, <1>4, <1>10 DEF SlotRelease, WorkerPoints
    <2>2. QED
        BY <1>1, <1>2, <1>3, <1>10, <2>1 DEF SlotRelease, CountersExact
<1>11. QED
    BY <1>6, <1>7, <1>8, <1>9, <1>10 DEF Work

\* Neither start-up, nor reconfiguration, nor the end of a run touches a guard.
LEMMA OtherCounters ==
    ASSUME IInv, UNCHANGED <<pc, counters, pool>>
    PROVE  CountersExact'
<1>1. /\ DecodeHolders' = DecodeHolders /\ EncodeHolders' = EncodeHolders
      /\ Rejecting' = Rejecting
    BY FutureStill
<1>2. RunningWorkers' = RunningWorkers /\ BusyWorkers' = BusyWorkers
    BY WorkerStill DEF pool
<1>3. QED
    BY <1>1, <1>2 DEF IInv, CountersExact, counters, pool

\* Every step keeps the four counters equal to the guards behind them.
LEMMA CountersStep ==
    ASSUME IInv, [Next]_vars
    PROVE  CountersExact'
<1>1. CASE (\E s \in Setters : Configure(s)) \/ Drained \/ UNCHANGED vars
    <2>1. UNCHANGED <<pc, counters, pool>>
        BY <1>1 DEF Configure, Drained, vars
    <2>2. QED
        BY <2>1, OtherCounters
<1>2. QED
    BY <1>1, FutureCounters, WorkerCounters DEF Next
-----------------------------------------------------------------------------
(* The task queue stays bounded. *)

\* Only SubmitAccepted adds to the tasks queued or on a worker, and it has seen
\* OUTSTANDING, which covers all of them, below the limit.
LEMMA QueueStep ==
    ASSUME IInv, [Next]_vars
    PROVE  QueueBounded'
<1> USE DEF IInv
<1>0. SUFFICES ASSUME QueueLimit # 0
               PROVE  Len(queue') + Cardinality(BusyWorkers') <= QueueLimit
    BY DEF QueueBounded
<1>1. /\ Cardinality(Rejecting) \in Nat /\ Cardinality(BusyWorkers) \in Nat
      /\ Cardinality(BusyWorkers') \in Nat /\ Len(queue) \in Nat /\ QueueLimit \in Nat
      /\ outstanding = Cardinality(Rejecting) + Len(queue) + Cardinality(BusyWorkers)
    BY CountsAreNat, PoolAssumption DEF TypeOK, CountersExact
<1>2. Len(queue) + Cardinality(BusyWorkers) <= QueueLimit
    BY <1>0 DEF QueueBounded
<1>3. CASE \E c \in Calls : SubmitAccepted(c)
    <2>1. BusyWorkers' = BusyWorkers
        BY <1>3, WorkerStill DEF SubmitAccepted
    <2>2. Len(queue') = Len(queue) + 1
        BY <1>3 DEF SubmitAccepted, TypeOK
    <2>3. outstanding + 1 <= QueueLimit
        BY <1>0, <1>1, <1>3 DEF SubmitAccepted, OverLimit
    <2>4. QED
        BY <1>1, <2>1, <2>2, <2>3
<1>4. CASE \E w \in Workers : StartSkipped(w) \/ StartRunning(w)
    <2>1. PICK w \in Workers : StartSkipped(w) \/ StartRunning(w)
        BY <1>4
    <2>2. Cardinality(BusyWorkers') = Cardinality(BusyWorkers) + 1
        BY <1>1, <2>1, WorkerMove DEF StartSkipped, StartRunning, WorkerPoints
    <2>3. Len(queue') = Len(queue) - 1
        BY <2>1 DEF StartSkipped, StartRunning, TypeOK
    <2>4. QED
        BY <1>1, <1>2, <2>2, <2>3
<1>5. CASE \E w \in Workers : \/ SendResult(w) \/ RunningExit(w)
                              \/ RunningNotify(w) \/ SlotRelease(w)
    <2>1. PICK w \in Workers : \/ SendResult(w) \/ RunningExit(w)
                               \/ RunningNotify(w) \/ SlotRelease(w)
        BY <1>5
    <2>2. Cardinality(BusyWorkers') <= Cardinality(BusyWorkers)
        BY <1>1, <2>1, WorkerMove
           DEF SendResult, RunningExit, RunningNotify, SlotRelease, WorkerPoints
    <2>3. queue' = queue
        BY <2>1 DEF SendResult, RunningExit, RunningNotify, SlotRelease
    <2>4. QED
        BY <1>1, <1>2, <2>2, <2>3
<1>6. CASE UNCHANGED <<queue, wpc>>
    BY <1>2, <1>6, WorkerStill
<1>7. QED
    <2>1. \/ \E c \in Calls : SubmitAccepted(c)
          \/ \E w \in Workers : Work(w)
          \/ UNCHANGED <<queue, wpc>>
        BY DEF Next, Admission, Spawn, Timeout, Configure, Drained, vars, pool,
               AdmitEntry, AdmitHead, AdmitPass, LoadOccupancy, LoadReserve, LoadDecode,
               LoadRunning, LoadEncode, CasReserve, CasRetry, Listen, Recheck, Wake,
               EncodeEntry, SubmitRejected, DropRejectedSlot, Complete, TaggedRelease,
               TaggedNotify, DropWaiting, DropParked
    <2>2. QED
        BY <1>3, <1>4, <1>5, <1>6, <2>1 DEF Work
-----------------------------------------------------------------------------
(* Types. *)

\* The counters are naturals because they are exact.
LEMMA CountersType ==
    ASSUME CountersExact', queue' \in Seq(Calls)
    PROVE  /\ decodeOutstanding' \in Nat /\ encodeOutstanding' \in Nat
           /\ running' \in Nat /\ outstanding' \in Nat
<1>1. Len(queue') \in Nat
    OBVIOUS
<1>2. QED
    BY <1>1, CountsAreNat DEF CountersExact

\* The event's listeners after a drop, and after a notification.
LEMMA DropListenerType ==
    ASSUME TypeOK, NEW c \in Calls, DropListener(c)
    PROVE  /\ listeners' \in Seq(Calls) /\ note' \in [Calls -> Notes]
           /\ note'[c] = "absent"
           /\ \A x \in Calls \ {c} :
                 \/ note'[x] = note[x]
                 \/ note[x] = "waiting" /\ note'[x] \in NotifiedNotes
<1>1. listeners \in Seq(Calls) /\ note \in [Calls -> Notes]
    BY DEF TypeOK
<1>2. listeners' \in Seq(Calls)
    BY <1>1, RemoveFirstType DEF DropListener
<1>3. QED
    BY <1>1, <1>2, NotesAfterDropEffect DEF DropListener

\* A notification changes one waiting listener at most.
LEMMA NotifyAdditionalType ==
    ASSUME TypeOK, NotifyAdditional
    PROVE  /\ listeners' \in Seq(Calls) /\ note' \in [Calls -> Notes]
           /\ \A x \in Calls :
                 \/ note'[x] = note[x]
                 \/ note[x] = "waiting" /\ note'[x] \in NotifiedNotes
<1>1. listeners \in Seq(Calls) /\ note \in [Calls -> Notes] /\ "additional" \in NotifiedNotes
    BY DEF TypeOK, NotifiedNotes
<1>2. QED
    BY <1>1, NotifyNextEffect DEF NotifyAdditional

\* notify(usize::MAX) leaves nobody un-notified.
LEMMA NotifyEveryType ==
    ASSUME TypeOK, note' = NotifyEvery(note)
    PROVE  /\ note' \in [Calls -> Notes]
           /\ \A x \in Calls : /\ note'[x] # "waiting"
                               /\ note[x] = "absent" <=> note'[x] = "absent"
BY DEF TypeOK, NotifyEvery, Notes

\* The setters' half of the state under each kind of step.
LEMMA SetupHalf ==
    ASSUME IInv, [Next]_vars
    PROVE  SetupTypeOK' /\ SettersInv'
<1>1. SetupTypeOK /\ SettersInv
    BY DEF IInv, TypeOK
<1>2. CASE UNCHANGED setupVars
    BY <1>1, <1>2 DEF SetupTypeOK, SettersInv, setupVars, poolVars, policyVars, args
<1>3. CASE \E c \in Calls : SubmitAccepted(c)
    BY <1>1, <1>3, SetupAssumption
       DEF SubmitAccepted, BuiltOnUse, SetupTypeOK, SettersInv, policyVars, args
<1>4. CASE \E s \in Setters : Configure(s)
    <2>1. PICK s \in Setters : SetupStep(s) \/ ApplyNotify(s)
        BY <1>4 DEF Configure
    <2>2. QED
        BY <1>1, <2>1, SetterType, SetterControl
<1>5. QED
    BY <1>2, <1>3, <1>4
       DEF Next, Admission, Spawn, Timeout, Work, Drained, vars,
           AdmitEntry, AdmitHead, AdmitPass, LoadOccupancy, LoadReserve, LoadDecode,
           LoadRunning, LoadEncode, CasReserve, CasRetry, Listen, Recheck, Wake,
           EncodeEntry, SubmitRejected, DropRejectedSlot, Complete, TaggedRelease,
           TaggedNotify, DropWaiting, DropParked, StartSkipped, StartRunning, SendResult,
           RunningExit, RunningNotify, SlotRelease

\* A step of a future keeps every variable outside the counters typed.
LEMMA FutureType ==
    ASSUME IInv, NEW c \in Calls, Admission(c) \/ Spawn(c) \/ Timeout(c)
    PROVE  /\ pc' \in [Calls -> FuturePoints]
           /\ loc' \in [Calls -> [pool : Nat, occ : 0..100, res : 0..100,
                                  dec : Nat, run : Nat, cap : Nat \cup {NoCap}]]
           /\ listeners' \in Seq(Calls) /\ note' \in [Calls -> Notes]
           /\ queue' \in Seq(Calls) /\ sent' \in [Calls -> BOOLEAN]
           /\ UNCHANGED <<worker, wpc>>
<1> DEFINE Locals == [pool : Nat, occ : 0..100, res : 0..100,
                      dec : Nat, run : Nat, cap : Nat \cup {NoCap}]
<1>1. /\ pc \in [Calls -> FuturePoints] /\ loc \in [Calls -> Locals]
      /\ listeners \in Seq(Calls) /\ note \in [Calls -> Notes]
      /\ queue \in Seq(Calls) /\ sent \in [Calls -> BOOLEAN]
      /\ decodeOutstanding \in Nat /\ running \in Nat /\ encodeOutstanding \in Nat
      /\ poolThreadCount \in Nat /\ occupancyPct \in 0..100 /\ reservePct \in 0..100
    BY DEF IInv, TypeOK, SetupTypeOK
<1>2. NoLocals \in Locals /\ [NoLocals EXCEPT !.pool = loc[c].pool] \in Locals
    BY <1>1 DEF NoLocals
<1>3. loc[c] \in Locals
    BY <1>1
<1>4. CapFor(c) \in Nat \cup {NoCap}
    <2>1. /\ loc[c].pool \in Nat /\ loc[c].run \in Nat /\ loc[c].dec \in Nat
          /\ loc[c].occ \in Nat /\ loc[c].res \in Nat
        BY <1>3
    <2>2. CapFor(c) \in (Nat \ {0}) \cup {NoCap}
        BY <1>1, <2>1, CapIsPositive DEF CapFor
    <2>3. QED
        BY <2>2
<1>5. pc' \in [Calls -> FuturePoints]
    <2>1. \E from, to \in FuturePoints : At(c, from, to)
        BY DEF Admission, Spawn, Timeout,
           AdmitEntry, AdmitHead, AdmitPass, LoadOccupancy, LoadReserve, LoadDecode,
           LoadRunning, LoadEncode, CasReserve, CasRetry, Listen, Recheck, Wake,
           EncodeEntry, SubmitAccepted, SubmitRejected, DropRejectedSlot, Complete,
           TaggedRelease, TaggedNotify, DropWaiting, DropParked, Leave, FuturePoints
    <2>2. QED
        BY <1>1, <2>1 DEF At
<1>6. /\ UNCHANGED <<worker, wpc>>
      /\ queue' \in Seq(Calls) /\ sent' \in [Calls -> BOOLEAN]
    <2>1. CASE UNCHANGED pool
        BY <1>1, <2>1 DEF pool
    <2>2. CASE SubmitAccepted(c) \/ Complete(c) \/ DropWaiting(c)
        <3>1. Append(queue, c) \in Seq(Calls)
            BY <1>1
        <3>2. [sent EXCEPT ![c] = FALSE] \in [Calls -> BOOLEAN]
            BY <1>1
        <3>3. QED
            BY <1>1, <2>2, <3>1, <3>2 DEF SubmitAccepted, Complete, DropWaiting
    <2>3. QED
        BY <2>1, <2>2 DEF Admission, Spawn, Timeout,
           AdmitEntry, AdmitHead, AdmitPass, LoadOccupancy, LoadReserve, LoadDecode,
           LoadRunning, LoadEncode, CasReserve, CasRetry, Listen, Recheck, Wake,
           EncodeEntry, SubmitRejected, DropRejectedSlot, TaggedRelease, TaggedNotify, DropParked
<1>7. listeners' \in Seq(Calls) /\ note' \in [Calls -> Notes]
    <2>1. CASE UNCHANGED event
        BY <1>1, <2>1 DEF event
    <2>2. CASE AdmitPass(c) \/ CasReserve(c) \/ DropParked(c)
        BY <2>2, DropListenerType DEF AdmitPass, CasReserve, DropParked, IInv
    <2>3. CASE Listen(c)
        BY <1>1, <2>3 DEF Listen, Notes
    <2>4. CASE Wake(c)
        BY <1>1, <2>4, RemoveFirstType DEF Wake, Notes
    <2>5. CASE TaggedNotify(c)
        BY <2>5, NotifyAdditionalType DEF TaggedNotify, IInv
    <2>6. QED
        BY <2>1, <2>2, <2>3, <2>4, <2>5 DEF Admission, Spawn, Timeout,
           AdmitEntry, AdmitHead, LoadOccupancy, LoadReserve, LoadDecode, LoadRunning,
           LoadEncode, CasRetry, Recheck, EncodeEntry, SubmitAccepted, SubmitRejected,
           DropRejectedSlot, Complete, DropWaiting, TaggedRelease
<1>8. loc' \in [Calls -> Locals]
    <2>1. CASE UNCHANGED loc
        BY <1>1, <2>1
    <2>2. CASE AdmitPass(c) \/ CasReserve(c) \/ DropParked(c) \/ Wake(c)
        <3>1. \E r \in Locals : loc' = [loc EXCEPT ![c] = r]
            BY <1>2, <2>2 DEF AdmitPass, CasReserve, DropParked, Wake
        <3>2. QED
            BY <1>1, <3>1
    <2>3. CASE AdmitEntry(c)
        <3>1. [loc[c] EXCEPT !.pool = poolThreadCount] \in Locals
            BY <1>1, <1>3
        <3>2. QED
            BY <1>1, <2>3, <3>1 DEF AdmitEntry
    <2>4. CASE LoadOccupancy(c) \/ LoadReserve(c)
        <3>1. /\ [loc[c] EXCEPT !.occ = occupancyPct] \in Locals
              /\ [loc[c] EXCEPT !.res = reservePct] \in Locals
            BY <1>1, <1>3
        <3>2. CASE LoadOccupancy(c)
            BY <1>1, <3>1, <3>2 DEF LoadOccupancy
        <3>3. CASE LoadReserve(c)
            BY <1>1, <3>1, <3>3 DEF LoadReserve
        <3>4. QED
            BY <2>4, <3>2, <3>3
    <2>5. CASE LoadDecode(c) \/ LoadRunning(c)
        <3>1. /\ [loc[c] EXCEPT !.dec = decodeOutstanding] \in Locals
              /\ [loc[c] EXCEPT !.run = running] \in Locals
            BY <1>1, <1>3
        <3>2. CASE LoadDecode(c)
            BY <1>1, <3>1, <3>2 DEF LoadDecode
        <3>3. CASE LoadRunning(c)
            BY <1>1, <3>1, <3>3 DEF LoadRunning
        <3>4. QED
            BY <2>5, <3>2, <3>3
    <2>6. CASE LoadEncode(c)
        <3>1. [loc[c] EXCEPT !.cap = CapFor(c)] \in Locals
            BY <1>3, <1>4
        <3>2. QED
            BY <1>1, <2>6, <3>1 DEF LoadEncode
    <2>7. QED
        BY <2>1, <2>2, <2>3, <2>4, <2>5, <2>6 DEF Admission, Spawn, Timeout,
           AdmitHead, CasRetry, Listen, Recheck, EncodeEntry, SubmitAccepted, SubmitRejected,
           DropRejectedSlot, Complete, DropWaiting, TaggedRelease, TaggedNotify
<1>9. QED
    BY <1>5, <1>6, <1>7, <1>8

\* So does a step of a worker.
LEMMA WorkerType ==
    ASSUME IInv, NEW w \in Workers, Work(w)
    PROVE  /\ UNCHANGED <<pc, loc>>
           /\ listeners' \in Seq(Calls) /\ note' \in [Calls -> Notes]
           /\ queue' \in Seq(Calls) /\ sent' \in [Calls -> BOOLEAN]
           /\ worker' \in [Workers -> Calls \cup {NoCall}]
           /\ wpc' \in [Workers -> WorkerPoints]
<1>1. /\ listeners \in Seq(Calls) /\ note \in [Calls -> Notes]
      /\ queue \in Seq(Calls) /\ sent \in [Calls -> BOOLEAN]
      /\ worker \in [Workers -> Calls \cup {NoCall}] /\ wpc \in [Workers -> WorkerPoints]
    BY DEF IInv, TypeOK
<1>2. UNCHANGED <<pc, loc>>
    BY DEF Work, StartSkipped, StartRunning, SendResult, RunningExit, RunningNotify, SlotRelease
<1>3. wpc' \in [Workers -> WorkerPoints]
    BY <1>1 DEF Work, StartSkipped, StartRunning, SendResult, RunningExit, RunningNotify,
                SlotRelease, WorkerAt, WorkerPoints
<1>4. queue' \in Seq(Calls) /\ worker' \in [Workers -> Calls \cup {NoCall}]
    <2>1. CASE StartSkipped(w) \/ StartRunning(w)
        <3>1. queue # <<>>
            BY <2>1 DEF StartSkipped, StartRunning
        <3>2. Head(queue) \in Calls /\ Tail(queue) \in Seq(Calls)
            BY <1>1, <3>1
        <3>3. QED
            BY <1>1, <2>1, <3>2 DEF StartSkipped, StartRunning
    <2>2. QED
        BY <1>1, <2>1 DEF Work, SendResult, RunningExit, RunningNotify, SlotRelease
<1>5. sent' \in [Calls -> BOOLEAN]
    <2>1. CASE SendResult(w)
        <3>1. sent' = [sent EXCEPT ![worker[w]] = (pc[worker[w]] = "waiting")]
            BY <2>1 DEF SendResult
        <3>2. QED
            BY <1>1, <3>1
    <2>2. QED
        BY <1>1, <2>1 DEF Work, StartSkipped, StartRunning, RunningExit, RunningNotify, SlotRelease
<1>6. listeners' \in Seq(Calls) /\ note' \in [Calls -> Notes]
    <2>1. CASE RunningNotify(w)
        BY <2>1, NotifyAdditionalType DEF RunningNotify, IInv
    <2>2. QED
        BY <1>1, <2>1 DEF Work, StartSkipped, StartRunning, SendResult, RunningExit, SlotRelease,
                          event
<1>7. QED
    BY <1>2, <1>3, <1>4, <1>5, <1>6

\* Every step keeps the types.
LEMMA TypeStep ==
    ASSUME IInv, [Next]_vars
    PROVE  TypeOK'
<1>1. SetupTypeOK' /\ CountersExact'
    BY SetupHalf, CountersStep
<1>2. CASE \E c \in Calls : Admission(c) \/ Spawn(c) \/ Timeout(c)
    BY <1>1, <1>2, FutureType, CountersType DEF TypeOK, IInv
<1>3. CASE \E w \in Workers : Work(w)
    BY <1>1, <1>3, WorkerType, CountersType DEF TypeOK, IInv
<1>4. CASE \E s \in Setters : Configure(s)
    <2>1. /\ UNCHANGED <<pc, loc, counters, pool, listeners>>
          /\ note' = note \/ note' = NotifyEvery(note)
        BY <1>4 DEF Configure, event
    <2>2. note' \in [Calls -> Notes]
        BY <2>1, NotifyEveryType DEF TypeOK, IInv
    <2>3. QED
        BY <1>1, <2>1, <2>2 DEF TypeOK, IInv, counters, pool
<1>5. CASE UNCHANGED vars
    BY <1>1, <1>5 DEF TypeOK, IInv, vars, counters, event, pool
<1>6. QED
    BY <1>2, <1>3, <1>4, <1>5 DEF Next, Drained
-----------------------------------------------------------------------------
(* Admission. *)

\* A step of somebody else disturbs an admitter only by notifying it.
LEMMA OtherAdmitters ==
    ASSUME NEW x \in Calls, AdmissionOK(x), pc'[x] = pc[x], loc'[x] = loc[x],
           \/ note'[x] = note[x]
           \/ note[x] = "waiting" /\ note'[x] \in NotifiedNotes,
           enabled' = enabled, at' = at
    PROVE  AdmissionOK(x)'
BY DEF AdmissionOK, UnderCap, NotifiedNotes

\* The admitter's own steps.
LEMMA OwnAdmission ==
    ASSUME IInv, NEW c \in Calls, Admission(c) \/ Spawn(c) \/ Timeout(c)
    PROVE  AdmissionOK(c)'
<1>1. /\ AdmissionOK(c) /\ pc \in [Calls -> FuturePoints] /\ note \in [Calls -> Notes]
      /\ loc \in [Calls -> [pool : Nat, occ : 0..100, res : 0..100,
                            dec : Nat, run : Nat, cap : Nat \cup {NoCap}]]
    BY DEF IInv, AdmissionInv, TypeOK
<1>2. TypeOK
    BY DEF IInv
<1> USE DEF AdmissionOK, At, AdmissionPoints
<1>3. CASE AdmitEntry(c) \/ AdmitHead(c) \/ LoadOccupancy(c) \/ LoadReserve(c)
    BY <1>1, <1>3
       DEF AdmitEntry, AdmitHead, LoadOccupancy, LoadReserve, event
<1>4. CASE LoadDecode(c) \/ LoadRunning(c)
    BY <1>1, <1>4
       DEF LoadDecode, LoadRunning, event, setupVars, policyVars
<1>5. CASE LoadEncode(c)
    <2>1. /\ loc'[c].dec = loc[c].dec /\ loc'[c].cap = CapFor(c)
          /\ UNCHANGED <<event, enabled, at>>
        BY <1>1, <1>5 DEF LoadEncode, setupVars, policyVars
    <2>2. CASE UnderCap(loc[c].dec, CapFor(c))
        <3>1. pc'[c] = "cas"
            BY <1>1, <1>5, <2>2 DEF LoadEncode
        <3>2. UnderCap(loc'[c].dec, loc'[c].cap)
            BY <2>1, <2>2
        <3>3. QED
            BY <1>1, <1>5, <2>1, <3>1, <3>2 DEF LoadEncode, event, UnderCap
    <2>3. CASE ~UnderCap(loc[c].dec, CapFor(c))
        BY <1>1, <1>5, <2>1, <2>3 DEF LoadEncode, event
    <2>4. QED
        BY <2>2, <2>3
<1>6. CASE AdmitPass(c) \/ CasReserve(c) \/ DropParked(c)
    <2>1. note'[c] = "absent"
        BY <1>2, <1>6, DropListenerType DEF AdmitPass, CasReserve, DropParked
    <2>2. pc'[c] \in {"submit", "done"}
        BY <1>1, <1>6 DEF AdmitPass, CasReserve, DropParked
    <2>3. QED
        BY <2>1, <2>2
<1>7. CASE CasRetry(c) \/ Recheck(c)
    BY <1>1, <1>7 DEF CasRetry, Recheck, event, setupVars, policyVars
<1>8. CASE Listen(c) \/ Wake(c)
    BY <1>1, <1>8 DEF Listen, Wake
<1>9. CASE \/ EncodeEntry(c) \/ SubmitAccepted(c) \/ SubmitRejected(c) \/ DropRejectedSlot(c)
           \/ Complete(c) \/ DropWaiting(c) \/ TaggedRelease(c) \/ TaggedNotify(c)
    <2>1. /\ pc'[c] \in {"submit", "waiting", "reject", "release", "notify", "done"}
          /\ note[c] = "absent"
        BY <1>1, <1>9 DEF EncodeEntry, SubmitAccepted, SubmitRejected, DropRejectedSlot,
           Complete, DropWaiting, TaggedRelease, TaggedNotify, Leave
    <2>2. note'[c] = "absent"
        BY <1>2, <1>9, <2>1, NotifyAdditionalType
           DEF EncodeEntry, SubmitAccepted, SubmitRejected, DropRejectedSlot,
               Complete, DropWaiting, TaggedRelease, TaggedNotify, event
    <2>3. QED
        BY <2>1, <2>2
<1>10. QED
    BY <1>3, <1>4, <1>5, <1>6, <1>7, <1>8, <1>9 DEF Admission, Spawn, Timeout

\* A step of a future leaves the other calls where they are.
LEMMA FutureFrame ==
    ASSUME IInv, NEW c \in Calls, Admission(c) \/ Spawn(c) \/ Timeout(c),
           NEW x \in Calls, x # c
    PROVE  /\ pc'[x] = pc[x] /\ loc'[x] = loc[x]
           /\ \/ note'[x] = note[x]
              \/ note[x] = "waiting" /\ note'[x] \in NotifiedNotes
           /\ enabled' = enabled /\ at' = at
<1>1. /\ TypeOK /\ pc \in [Calls -> FuturePoints] /\ note \in [Calls -> Notes]
      /\ loc \in [Calls -> [pool : Nat, occ : 0..100, res : 0..100,
                            dec : Nat, run : Nat, cap : Nat \cup {NoCap}]]
    BY DEF IInv, TypeOK
<1>2. enabled' = enabled /\ at' = at
    BY DEF Admission, Spawn, Timeout, setupVars, policyVars,
           AdmitEntry, AdmitHead, AdmitPass, LoadOccupancy, LoadReserve, LoadDecode,
           LoadRunning, LoadEncode, CasReserve, CasRetry, Listen, Recheck, Wake,
           EncodeEntry, SubmitAccepted, SubmitRejected, DropRejectedSlot, Complete,
           TaggedRelease, TaggedNotify, DropWaiting, DropParked
<1>3. pc'[x] = pc[x]
    BY <1>1 DEF Admission, Spawn, Timeout, At,
           AdmitEntry, AdmitHead, AdmitPass, LoadOccupancy, LoadReserve, LoadDecode,
           LoadRunning, LoadEncode, CasReserve, CasRetry, Listen, Recheck, Wake,
           EncodeEntry, SubmitAccepted, SubmitRejected, DropRejectedSlot, Complete,
           TaggedRelease, TaggedNotify, DropWaiting, DropParked
<1>4. loc'[x] = loc[x]
    BY <1>1 DEF Admission, Spawn, Timeout,
           AdmitEntry, AdmitHead, AdmitPass, LoadOccupancy, LoadReserve, LoadDecode,
           LoadRunning, LoadEncode, CasReserve, CasRetry, Listen, Recheck, Wake,
           EncodeEntry, SubmitAccepted, SubmitRejected, DropRejectedSlot, Complete,
           TaggedRelease, TaggedNotify, DropWaiting, DropParked
<1>5. \/ note'[x] = note[x]
      \/ note[x] = "waiting" /\ note'[x] \in NotifiedNotes
    <2>1. CASE AdmitPass(c) \/ CasReserve(c) \/ DropParked(c)
        BY <1>1, <2>1, DropListenerType DEF AdmitPass, CasReserve, DropParked
    <2>2. CASE TaggedNotify(c)
        BY <1>1, <2>2, NotifyAdditionalType DEF TaggedNotify
    <2>3. CASE Listen(c) \/ Wake(c)
        BY <1>1, <2>3 DEF Listen, Wake
    <2>4. QED
        BY <2>1, <2>2, <2>3 DEF Admission, Spawn, Timeout, event,
           AdmitEntry, AdmitHead, LoadOccupancy, LoadReserve, LoadDecode,
           LoadRunning, LoadEncode, CasRetry, Recheck,
           EncodeEntry, SubmitAccepted, SubmitRejected, DropRejectedSlot, Complete,
           TaggedRelease, DropWaiting
<1>6. QED
    BY <1>2, <1>3, <1>4, <1>5

\* Switching arbitration off puts the apply on its way to the notification, and
\* the notification leaves no listener waiting.
LEMMA ConfigureAdmission ==
    ASSUME IInv, NEW s \in Setters, Configure(s)
    PROVE  AdmissionInv'
<1>1. /\ TypeOK /\ UNCHANGED <<pc, loc>> /\ at \in [Setters -> SetterPoints]
      /\ \A x \in Calls : AdmissionOK(x)
    BY DEF Configure, IInv, TypeOK, SetupTypeOK, AdmissionInv
<1>2. CASE ApplyNotify(s) /\ note' = NotifyEvery(note)
    BY <1>1, <1>2, NotifyEveryType DEF AdmissionInv, AdmissionOK, UnderCap
<1>3. CASE SetupStep(s) /\ UNCHANGED event
    <2>1. (enabled \/ \E t \in Setters : at[t] = "notify")
             => (enabled' \/ \E t \in Setters : at'[t] = "notify")
        <3>1. CASE ApplyDisable(s) \/ ApplyEnable(s)
            BY <1>1, <3>1 DEF ApplyDisable, ApplyEnable, Goto
        <3>2. CASE ~(ApplyDisable(s) \/ ApplyEnable(s))
            <4>1. enabled' = enabled
                BY <1>3, <3>2 DEF SetupStep, InitStoreCount, InitBuild, OverrideStart, OnceClaim,
                   ApplyOccupancy, ApplyReserve, OverrideMark, policyVars
            <4>2. at[s] # "notify" /\ \A t \in Setters : t # s => at'[t] = at[t]
                BY <1>1, <1>3, <3>2 DEF SetupStep, InitStoreCount, InitBuild, OverrideStart,
                   OnceClaim, ApplyOccupancy, ApplyReserve, OverrideMark, Goto
            <4>3. QED
                BY <4>1, <4>2
        <3>3. QED
            BY <3>1, <3>2
    <2>2. QED
        BY <1>1, <1>3, <2>1 DEF AdmissionInv, AdmissionOK, UnderCap, event
<1>4. QED
    BY <1>2, <1>3 DEF Configure

\* Every step keeps every admitter's control and locals consistent.
LEMMA AdmissionStep ==
    ASSUME IInv, [Next]_vars
    PROVE  AdmissionInv'
<1>1. \A x \in Calls : AdmissionOK(x)
    BY DEF IInv, AdmissionInv
<1>2. CASE \E c \in Calls : Admission(c) \/ Spawn(c) \/ Timeout(c)
    <2>1. PICK c \in Calls : Admission(c) \/ Spawn(c) \/ Timeout(c)
        BY <1>2
    <2>2. AdmissionOK(c)'
        BY <2>1, OwnAdmission
    <2>3. ASSUME NEW x \in Calls, x # c
          PROVE  AdmissionOK(x)'
        BY <1>1, <2>1, <2>3, FutureFrame, OtherAdmitters
    <2>4. QED
        BY <2>2, <2>3 DEF AdmissionInv
<1>3. CASE \E w \in Workers : Work(w)
    <2>1. /\ UNCHANGED <<pc, loc, enabled, at>>
          /\ UNCHANGED note \/ NotifyAdditional
        BY <1>3 DEF Work, StartSkipped, StartRunning, SendResult, RunningExit, RunningNotify,
                    SlotRelease, event, setupVars, policyVars
    <2>2. \A x \in Calls : \/ note'[x] = note[x]
                           \/ note[x] = "waiting" /\ note'[x] \in NotifiedNotes
        BY <2>1, NotifyAdditionalType DEF IInv
    <2>3. QED
        BY <1>1, <2>1, <2>2, OtherAdmitters DEF AdmissionInv
<1>4. CASE \E s \in Setters : Configure(s)
    BY <1>4, ConfigureAdmission
<1>5. CASE UNCHANGED vars
    BY <1>1, <1>5 DEF AdmissionInv, AdmissionOK, UnderCap, vars, event, setupVars, policyVars
<1>6. QED
    BY <1>2, <1>3, <1>4, <1>5 DEF Next, Drained
-----------------------------------------------------------------------------
(* The inductive invariant. *)

\* The invariant holds at the start,
LEMMA InitIInv == Init => IInv
<1> SUFFICES ASSUME Init PROVE IInv
    OBVIOUS
<1>1. SetupTypeOK /\ SettersInv
    BY SetupInitial DEF Init, SetupIInv
<1>2. NoLocals \in [pool : Nat, occ : 0..100, res : 0..100,
                    dec : Nat, run : Nat, cap : Nat \cup {NoCap}]
    BY DEF NoLocals
<1>3. /\ DecodeHolders = {} /\ EncodeHolders = {} /\ Rejecting = {}
      /\ RunningWorkers = {} /\ BusyWorkers = {}
    BY PoolAssumption DEF Init, DecodeHolders, EncodeHolders, Rejecting, RunningWorkers,
                          BusyWorkers, Standing, Holding, Calls, Tagged
<1>4. Cardinality({}) = 0
    BY FS_EmptySet
<1>5. TypeOK
    <2>1. pc \in [Calls -> FuturePoints] /\ note \in [Calls -> Notes]
        BY DEF Init, FuturePoints, Notes
    <2>2. sent \in [Calls -> BOOLEAN]
        BY DEF Init
    <2>3. wpc \in [Workers -> WorkerPoints] /\ worker \in [Workers -> Calls \cup {NoCall}]
        BY DEF Init, WorkerPoints
    <2>4. QED
        BY <1>1, <1>2, <2>1, <2>2, <2>3 DEF Init, TypeOK
<1>6. CountersExact /\ QueueBounded
    BY <1>3, <1>4, PoolAssumption DEF Init, CountersExact, QueueBounded
<1>7. AdmissionInv
    BY DEF Init, AdmissionInv, AdmissionOK, AdmissionPoints
<1>8. QED
    BY <1>1, <1>5, <1>6, <1>7 DEF IInv

\* every step keeps it,
LEMMA NextIInv == IInv /\ [Next]_vars => IInv'
BY SetupHalf, TypeStep, CountersStep, QueueStep, AdmissionStep DEF IInv

\* so it is an invariant of the specification.
LEMMA Invariance == Spec => []IInv
BY InitIInv, NextIInv, PTL DEF Spec
-----------------------------------------------------------------------------
(* Theorems. *)

\* Type correctness; in particular no counter is ever decremented below zero.
THEOREM TypeCorrect == Spec => []TypeOK
<1>1. IInv => TypeOK
    BY DEF IInv
<1>2. QED
    BY <1>1, Invariance, PTL

\* For any number of calls, workers and timeouts, OUTSTANDING, RUNNING,
\* DECODE_OUTSTANDING and ENCODE_OUTSTANDING equal the live guards behind them.
THEOREM CountersAreExact == Spec => []CountersExact
<1>1. IInv => CountersExact
    BY DEF IInv
<1>2. QED
    BY <1>1, Invariance, PTL

\* For any limit, the tasks queued or on a worker never exceed it.
THEOREM QueueIsBounded == Spec => []QueueBounded
<1>1. IInv => QueueBounded
    BY DEF IInv
<1>2. QED
    BY <1>1, Invariance, PTL

\* Once arbitration is off and its apply has notified, nobody is left parked
\* without a notification.
THEOREM DisableReleasesWaiters == Spec => []DisableReachesWaiters
<1>1. IInv => DisableReachesWaiters
    BY DEF IInv, TypeOK, AdmissionInv, AdmissionOK, DisableReachesWaiters, Notes, NotifiedNotes
<1>2. QED
    BY <1>1, Invariance, PTL

\* A decode admitted under a cap never takes DECODE_OUTSTANDING past that cap.
THEOREM DecodeCapHolds == Spec => DecodeCapIsHard
<1>1. IInv /\ [Next]_vars =>
        [\A c \in Decoders :
            pc[c] = "cas" /\ pc'[c] = "submit" /\ loc[c].cap # NoCap
                => decodeOutstanding' <= loc[c].cap]_vars
    <2> SUFFICES ASSUME IInv, Next, NEW c \in Decoders, pc[c] = "cas", pc'[c] = "submit",
                        loc[c].cap # NoCap
                 PROVE  decodeOutstanding' <= loc[c].cap
        OBVIOUS
    <2>0. c \in Calls
        BY DEF Calls
    <2>1. CasReserve(c)
        <3>1. PICK x \in Calls : Admission(x) \/ Spawn(x) \/ Timeout(x)
            BY WorkerType DEF Next, Configure, Drained, vars
        <3>2. x = c
            BY <2>0, <3>1, FutureFrame
        <3>3. QED
            BY <2>0, <3>1, <3>2 DEF Admission, Spawn, Timeout, At, IInv, TypeOK,
                AdmitEntry, AdmitHead, AdmitPass, LoadOccupancy, LoadReserve, LoadDecode,
                LoadRunning, LoadEncode, CasRetry, Listen, Recheck, Wake,
                EncodeEntry, SubmitAccepted, SubmitRejected, DropRejectedSlot, Complete,
                TaggedRelease, TaggedNotify, DropWaiting, DropParked
    <2>2. decodeOutstanding < loc[c].cap
        BY <2>0, <2>1 DEF IInv, AdmissionInv, AdmissionOK, UnderCap, CasReserve
    <2>3. loc[c].cap \in Nat /\ decodeOutstanding \in Nat
        <3>1. loc[c] \in [pool : Nat, occ : 0..100, res : 0..100,
                          dec : Nat, run : Nat, cap : Nat \cup {NoCap}]
            BY <2>0 DEF IInv, TypeOK
        <3>2. QED
            BY <3>1 DEF IInv, TypeOK
    <2>4. QED
        BY <2>1, <2>2, <2>3 DEF CasReserve
<1>2. QED
    BY <1>1, Invariance, PTL DEF Spec, DecodeCapIsHard

\* The pool with its calls drives start-up and configuration only as ArbiterSetup
\* allows: what is proved of SetupSpec holds of Spec.
THEOREM PoolImplementsSetup == Spec => SetupSpec
<1>1. Init => SetupInit
    BY DEF Init
<1>2. [Next]_vars => [SetupNext]_setupVars
    <2> SUFFICES ASSUME [Next]_vars PROVE [SetupNext]_setupVars
        OBVIOUS
    <2>1. CASE \E c \in Calls : SubmitAccepted(c)
        BY <2>1 DEF SubmitAccepted, BuiltOnUse, SetupNext, FirstUse, setupVars, poolVars
    <2>2. CASE \E s \in Setters : Configure(s)
        BY <2>2 DEF Configure, SetupNext
    <2>3. CASE UNCHANGED setupVars
        BY <2>3
    <2>4. QED
        BY <2>1, <2>2, <2>3
           DEF Next, Admission, Spawn, Timeout, Work, Drained, vars,
               AdmitEntry, AdmitHead, AdmitPass, LoadOccupancy, LoadReserve, LoadDecode,
               LoadRunning, LoadEncode, CasReserve, CasRetry, Listen, Recheck, Wake,
               EncodeEntry, SubmitRejected, DropRejectedSlot, Complete, TaggedRelease,
               TaggedNotify, DropWaiting, DropParked, StartSkipped, StartRunning, SendResult,
               RunningExit, RunningNotify, SlotRelease
<1>3. QED
    BY <1>1, <1>2, PTL DEF Spec, SetupSpec
-----------------------------------------------------------------------------
(* No wake-up is lost. *)

\* An admitter that waits, or that is bound to: with its listener registered it has read a
\* number of outstanding decodes that may keep it out.
Settled(c) ==
    /\ note[c] = "waiting"
    /\ \/ pc[c] = "parked"
       \/ pc[c] \in {"run", "enc"} /\ loc[c].dec # 0

\* A decode that will notify, or will come back to the counters.
Owes(d) == pc[d] \notin {"idle", "done"} /\ ~Settled(d)

\* Every waiting listener is in the event's list, and while an admitter is settled somebody
\* owes a notification.  The settled ones cannot vouch for each other: that is why they are
\* set apart from the moment they read the counter and not only once parked.
OwedInv ==
    /\ InList(listeners, note, Calls)
    /\ (\E c \in Calls : Settled(c)) => \E d \in Decoders : Owes(d)

\* The list keeps every listener that is left waiting.
LEMMA InListStep ==
    ASSUME IInv, InList(listeners, note, Calls), [Next]_vars
    PROVE  InList(listeners', note', Calls)
<1>0. TypeOK /\ listeners \in Seq(Calls) /\ note \in [Calls -> Notes]
    BY DEF IInv, TypeOK
<1>1. CASE UNCHANGED event
    BY <1>1 DEF InList, event
<1>2. CASE NotifyAdditional
    <2>1. \A x \in Calls : note'[x] = "waiting" => note[x] = "waiting"
        BY <1>0, <1>2, NotifyAdditionalType DEF NotifiedNotes
    <2>2. listeners' = listeners
        BY <1>2 DEF NotifyAdditional
    <2>3. QED
        BY <2>1, <2>2 DEF InList
<1>3. ASSUME NEW c \in Calls, listeners' = RemoveFirst(listeners, c), note'[c] # "waiting",
             \A x \in Calls \ {c} : note'[x] = "waiting" => note[x] = "waiting"
      PROVE  InList(listeners', note', Calls)
    <2> SUFFICES ASSUME NEW x \in Calls, note'[x] = "waiting"
                 PROVE  \E j \in 1..Len(listeners') : listeners'[j] = x
        BY DEF InList
    <2>1. x # c /\ note[x] = "waiting"
        BY <1>3
    <2>2. PICK i \in 1..Len(listeners) : listeners[i] = x
        BY <2>1 DEF InList
    <2>3. QED
        BY <1>0, <1>3, <2>1, <2>2, RemoveFirstKeeps
<1>4. ASSUME NEW c \in Calls, DropListener(c)
      PROVE  InList(listeners', note', Calls)
    <2>1. note'[c] = "absent" /\ \A x \in Calls \ {c} : note'[x] = "waiting" => note[x] = "waiting"
        BY <1>0, <1>4, DropListenerType DEF NotifiedNotes
    <2>2. listeners' = RemoveFirst(listeners, c)
        BY <1>4 DEF DropListener
    <2>3. QED
        BY <1>3, <2>1, <2>2
<1>5. ASSUME NEW c \in Calls, Wake(c)
      PROVE  InList(listeners', note', Calls)
    <2>1. /\ listeners' = RemoveFirst(listeners, c) /\ note'[c] = "absent"
          /\ \A x \in Calls \ {c} : note'[x] = note[x]
        BY <1>0, <1>5 DEF Wake
    <2>2. QED
        BY <1>3, <2>1
<1>6. ASSUME NEW c \in Calls, Listen(c)
      PROVE  InList(listeners', note', Calls)
    <2>1. listeners' = Append(listeners, c) /\ \A x \in Calls \ {c} : note'[x] = note[x]
        BY <1>0, <1>6 DEF Listen
    <2>2. /\ Len(listeners') = Len(listeners) + 1 /\ Len(listeners) \in Nat
          /\ listeners'[Len(listeners) + 1] = c
          /\ \A i \in 1..Len(listeners) : listeners'[i] = listeners[i]
        BY <1>0, <2>1
    <2>3. QED
        BY <2>1, <2>2 DEF InList
<1>7. ASSUME note' = NotifyEvery(note)
      PROVE  InList(listeners', note', Calls)
    BY <1>0, <1>7, NotifyEveryType DEF InList
<1>8. \/ UNCHANGED event \/ NotifyAdditional \/ note' = NotifyEvery(note)
      \/ \E c \in Calls : DropListener(c) \/ Wake(c) \/ Listen(c)
    BY DEF Next, Admission, Spawn, Timeout, Work, Configure, Drained, vars, event,
           AdmitEntry, AdmitHead, AdmitPass, LoadOccupancy, LoadReserve, LoadDecode,
           LoadRunning, LoadEncode, CasReserve, CasRetry, Recheck,
           EncodeEntry, SubmitAccepted, SubmitRejected, DropRejectedSlot, Complete, TaggedRelease,
           TaggedNotify, DropWaiting, DropParked, StartSkipped, StartRunning, SendResult,
           RunningExit, RunningNotify, SlotRelease
<1>9. QED
    BY <1>1, <1>2, <1>4, <1>5, <1>6, <1>7, <1>8

\* A notification sent while an admitter is left waiting went to somebody.
LEMMA NotifyOwes ==
    ASSUME IInv, OwedInv, NotifyAdditional, NEW x \in Calls, note'[x] = "waiting"
    PROVE  \E e \in Calls : note[e] = "waiting" /\ note'[e] \in NotifiedNotes
<1>0. listeners \in Seq(Calls) /\ note \in [Calls -> Notes] /\ "additional" \in NotifiedNotes
    BY DEF IInv, TypeOK, NotifiedNotes
<1>1. note[x] = "waiting"
    BY NotifyAdditionalType DEF IInv, NotifiedNotes
<1>2. \E i \in 1..Len(listeners) : note[listeners[i]] = "waiting"
    BY <1>1 DEF OwedInv, InList
<1>3. \E e \in Calls : note[e] = "waiting" /\ NotifyNext(listeners, note, "additional")[e] = "additional"
    BY <1>0, <1>2, NotifyNextWakes
<1>4. QED
    BY <1>0, <1>3 DEF NotifyAdditional

\* decode_admit_cap never keeps out an admitter that saw no decode outstanding.
LEMMA ParkedSawDecodes ==
    ASSUME IInv, NEW c \in Calls, ~UnderCap(loc[c].dec, CapFor(c))
    PROVE  loc[c].dec # 0
<1>1. /\ loc[c].pool \in Nat /\ loc[c].run \in Nat /\ loc[c].dec \in Nat /\ loc[c].occ \in Nat
      /\ loc[c].res \in Nat /\ encodeOutstanding \in Nat
    <2>1. loc[c] \in [pool : Nat, occ : 0..100, res : 0..100,
                      dec : Nat, run : Nat, cap : Nat \cup {NoCap}]
        BY DEF IInv, TypeOK
    <2>2. encodeOutstanding \in Nat
        BY DEF IInv, TypeOK
    <2> DEFINE r == loc[c]
    <2> HIDE DEF r
    <2>3. /\ r.pool \in Nat /\ r.run \in Nat /\ r.dec \in Nat
          /\ r.occ \in 0..100 /\ r.res \in 0..100
        BY <2>1 DEF r
    <2>4. r.occ \in Nat /\ r.res \in Nat
        BY <2>3
    <2>5. QED
        BY <2>2, <2>3, <2>4 DEF r
<1> DEFINE k == CapFor(c)
           d == loc[c].dec
<1>2. k \in Nat \cup {NoCap} /\ k # 0
    <2>1. CapFor(c) \in (Nat \ {0}) \cup {NoCap}
        BY <1>1, CapIsPositive DEF CapFor
    <2>2. QED
        BY <2>1 DEF NoCap
<1>3. ~(k = NoCap \/ d < k) /\ d \in Nat
    BY <1>1 DEF UnderCap
<1> HIDE DEF k, d
<1>4. d # 0
    BY <1>2, <1>3
<1>5. QED
    BY <1>4 DEF d

\* What a step of a call does to its own standing: it settles by reading a counter that is not
\* zero, and ends owing only by notifying or by dropping its listener.
LEMMA OwnStanding ==
    ASSUME IInv, NEW c \in Calls, Admission(c) \/ Spawn(c) \/ Timeout(c)
    PROVE  /\ Settled(c)' => Settled(c) \/ (LoadDecode(c) /\ decodeOutstanding # 0)
           /\ pc'[c] # "idle"
           /\ pc'[c] = "done" /\ c \in Decoders => TaggedNotify(c) \/ DropParked(c)
<1>0. /\ TypeOK /\ pc \in [Calls -> FuturePoints] /\ note \in [Calls -> Notes]
      /\ loc \in [Calls -> [pool : Nat, occ : 0..100, res : 0..100,
                            dec : Nat, run : Nat, cap : Nat \cup {NoCap}]]
    BY DEF IInv, TypeOK
<1>1. CASE LoadDecode(c)
    <2>1. loc'[c].dec = decodeOutstanding /\ pc'[c] = "run"
        BY <1>0, <1>1 DEF LoadDecode, At
    <2>2. QED
        BY <1>1, <2>1 DEF Settled
<1>2. CASE LoadRunning(c)
    <2>1. loc'[c].dec = loc[c].dec /\ pc[c] = "run" /\ pc'[c] = "enc" /\ note' = note
        BY <1>0, <1>2 DEF LoadRunning, At, event
    <2>2. QED
        BY <2>1 DEF Settled
<1>3. CASE LoadEncode(c)
    <2>1. /\ pc[c] = "enc" /\ note' = note
          /\ pc'[c] = IF UnderCap(loc[c].dec, CapFor(c)) THEN "cas"
                      ELSE IF note[c] = "absent" THEN "listen" ELSE "parked"
        BY <1>0, <1>3 DEF LoadEncode, At, event
    <2>2. QED
        BY <2>1, ParkedSawDecodes DEF Settled
<1>4. CASE /\ ~LoadDecode(c) /\ ~LoadRunning(c) /\ ~LoadEncode(c)
    <2>1. pc'[c] \notin {"parked", "run", "enc", "idle"}
        BY <1>0, <1>4 DEF Admission, Spawn, Timeout, At,
           AdmitEntry, AdmitHead, AdmitPass, LoadOccupancy, LoadReserve,
           CasReserve, CasRetry, Listen, Recheck, Wake,
           EncodeEntry, SubmitAccepted, SubmitRejected, DropRejectedSlot, Complete, Leave,
           TaggedRelease, TaggedNotify, DropWaiting, DropParked
    <2>2. pc'[c] = "done" /\ c \in Decoders => TaggedNotify(c) \/ DropParked(c)
        BY <1>0, <1>4 DEF Admission, Spawn, Timeout, At, Tagged,
           AdmitEntry, AdmitHead, AdmitPass, LoadOccupancy, LoadReserve,
           CasReserve, CasRetry, Listen, Recheck, Wake,
           EncodeEntry, SubmitAccepted, SubmitRejected, DropRejectedSlot, Complete, Leave,
           TaggedRelease, DropWaiting
    <2>3. QED
        BY <2>1, <2>2 DEF Settled
<1>5. QED
    BY <1>1, <1>2, <1>3, <1>4

\* A counter that is not zero has a decode behind it.
LEMMA HolderExists ==
    ASSUME IInv, decodeOutstanding # 0
    PROVE  \E h \in Decoders : pc[h] \in Holding
<1>1. decodeOutstanding = Cardinality(DecodeHolders)
    BY DEF IInv, CountersExact
<1>2. DecodeHolders # {}
    BY <1>1, FS_EmptySet
<1>3. QED
    BY <1>2 DEF DecodeHolders, Standing

\* A step of a call leaves somebody owing.
LEMMA OwedByFuture ==
    ASSUME IInv, IInv', OwedInv, NEW c \in Calls, Admission(c) \/ Spawn(c) \/ Timeout(c),
           NEW x \in Calls, Settled(x)'
    PROVE  \E d \in Decoders : Owes(d)'
<1>0. TypeOK /\ AdmissionInv /\ AdmissionInv' /\ Decoders \subseteq Calls
    BY DEF IInv, Calls
<1>1. ASSUME NEW y \in Calls, y # c
      PROVE  /\ Settled(y)' => Settled(y)
             /\ Owes(y) => Owes(y)'
    <2>1. /\ pc'[y] = pc[y] /\ loc'[y] = loc[y]
          /\ note'[y] = note[y] \/ note'[y] # "waiting"
        BY <1>1, FutureFrame DEF NotifiedNotes
    <2>2. Settled(y)' => Settled(y)
        BY <2>1 DEF Settled
    <2>3. QED
        BY <2>1, <2>2 DEF Owes
<1>2. CASE Settled(c)' /\ LoadDecode(c) /\ decodeOutstanding # 0
    <2>1. PICK h \in Decoders : pc[h] \in Holding
        BY <1>2, HolderExists
    <2>2. pc[c] = "dec" /\ h # c
        BY <1>2, <2>1 DEF LoadDecode, At, Holding
    <2>3. Owes(h)
        BY <2>1 DEF Owes, Settled, Holding
    <2>4. QED
        BY <1>0, <1>1, <2>2, <2>3
<1>3. CASE Settled(c)' /\ Settled(c)
    <2>1. PICK d \in Decoders : Owes(d)
        BY <1>3 DEF OwedInv
    <2>2. d # c
        BY <1>3, <2>1 DEF Owes
    <2>3. QED
        BY <1>0, <1>1, <2>1, <2>2
<1>4. CASE ~Settled(c)' /\ c \in Decoders /\ pc'[c] # "done"
    BY <1>4, OwnStanding DEF Owes
<1>5. CASE ~Settled(c)' /\ ~(c \in Decoders /\ pc'[c] # "done")
    <2>1. x # c /\ Settled(x) /\ note'[x] = "waiting"
        BY <1>1, <1>5 DEF Settled
    <2>2. PICK d \in Decoders : Owes(d)
        BY <2>1 DEF OwedInv
    <2>3. CASE d # c
        BY <1>0, <1>1, <2>2, <2>3
    <2>4. CASE d = c
        <3>1. TaggedNotify(c) \/ DropParked(c)
            BY <1>5, <2>4, OwnStanding
        <3>2. CASE TaggedNotify(c)
            <4>1. PICK e \in Calls : note'[e] \in NotifiedNotes
                BY <2>1, <3>2, NotifyOwes DEF TaggedNotify
            <4>2. QED
                BY <1>0, <4>1 DEF AdmissionInv, AdmissionOK, AdmissionPoints,
                                  NotifiedNotes, Owes, Settled
        <3>3. CASE DropParked(c)
            <4>1. note[c] \in NotifiedNotes
                <5>1. pc[c] = "parked" /\ note[c] \in Notes /\ note[c] # "absent"
                    BY <1>0, <3>3 DEF DropParked, At, TypeOK, AdmissionInv, AdmissionOK
                <5>2. note[c] # "waiting"
                    BY <2>2, <2>4, <5>1 DEF Owes, Settled
                <5>3. QED
                    BY <5>1, <5>2 DEF Notes, NotifiedNotes
            <4>2. note' = NotesAfterDrop(listeners, note, c)
                BY <3>3 DEF DropParked, DropListener
            <4>3. PICK e \in Calls : note'[e] \in NotifiedNotes
                <5>1. listeners \in Seq(Calls) /\ note \in [Calls -> Notes] /\ InList(listeners, note, Calls)
                    BY <1>0 DEF TypeOK, OwedInv
                <5>2. NotesAfterDrop(listeners, note, c)[x] = "waiting"
                    BY <2>1, <4>2
                <5>3. \E e \in Calls : e # c /\ NotesAfterDrop(listeners, note, c)[e] \in NotifiedNotes
                    BY <2>1, <4>1, <5>1, <5>2, NotesAfterDropWakes
                <5>4. QED
                    BY <4>2, <5>3
            <4>4. QED
                BY <1>0, <4>3 DEF AdmissionInv, AdmissionOK, AdmissionPoints,
                                  NotifiedNotes, Owes, Settled
        <3>4. QED
            BY <3>1, <3>2, <3>3
    <2>5. QED
        BY <2>3, <2>4
<1>6. QED
    BY <1>2, <1>3, <1>4, <1>5, OwnStanding

\* Every step leaves somebody owing.
LEMMA OwedStep ==
    ASSUME IInv, IInv', OwedInv, [Next]_vars
    PROVE  OwedInv'
<1>0. TypeOK /\ AdmissionInv' /\ Decoders \subseteq Calls
    BY DEF IInv, Calls
<1>1. InList(listeners', note', Calls)
    BY InListStep DEF OwedInv
<1>2. ASSUME NEW x \in Calls, Settled(x)'
      PROVE  \E d \in Decoders : Owes(d)'
    <2>1. CASE \E c \in Calls : Admission(c) \/ Spawn(c) \/ Timeout(c)
        BY <1>2, <2>1, OwedByFuture
    <2>2. CASE UNCHANGED <<pc, loc, note>>
        <3>1. Settled(x)
            BY <1>2, <2>2 DEF Settled
        <3>2. PICK d \in Decoders : Owes(d)
            BY <3>1 DEF OwedInv
        <3>3. QED
            BY <2>2, <3>2 DEF Owes, Settled
    <2>3. CASE NotifyAdditional
        <3>1. PICK e \in Calls : note'[e] \in NotifiedNotes
            BY <1>2, <2>3, NotifyOwes DEF Settled
        <3>2. QED
            BY <1>0, <3>1 DEF AdmissionInv, AdmissionOK, AdmissionPoints, NotifiedNotes, Owes, Settled
    <2>4. CASE note' = NotifyEvery(note)
        BY <1>0, <1>2, <2>4, NotifyEveryType DEF Settled
    <2>5. \/ \E c \in Calls : Admission(c) \/ Spawn(c) \/ Timeout(c)
          \/ UNCHANGED <<pc, loc, note>>
          \/ NotifyAdditional
          \/ note' = NotifyEvery(note)
        BY DEF Next, Work, Configure, Drained, vars, event, StartSkipped, StartRunning, SendResult,
               RunningExit, RunningNotify, SlotRelease
    <2>6. QED
        BY <2>1, <2>2, <2>3, <2>4, <2>5
<1>3. QED
    BY <1>1, <1>2 DEF OwedInv, InList

\* While an admitter waits without a notification a decode is left that owes one, in every
\* interleaving of the stale reads of try_reserve_decode, the registrations, the timeouts that
\* drop a listener with its notification, and the notifications of finished tasks.
THEOREM WakeupIsOwed == Spec => []WakeupOwed
<1>1. Init => OwedInv
    BY DEF Init, OwedInv, InList, Settled
<1>2. IInv /\ IInv' /\ OwedInv /\ [Next]_vars => OwedInv'
    BY OwedStep
<1>3. OwedInv => WakeupOwed
    BY DEF OwedInv, WakeupOwed, Owes, Settled
<1>4. QED
    BY <1>1, <1>2, <1>3, Invariance, PTL DEF Spec
=============================================================================
