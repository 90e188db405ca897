-------------------------- MODULE CopyDuplexProofs --------------------------
(***************************************************************************)
(* Proofs about CopyDuplex, for any messages, buffer size and number of    *)
(* stalls.  The safety properties speak of what a writer got; they follow  *)
(* from one inductive invariant, IInv, that also says what is in the copy  *)
(* buffer and what each call of a poll may rely on.                        *)
(***************************************************************************)
EXTENDS CopyDuplex, SequenceTheorems, WellFoundedInduction, TLAPS

Stages == {"ab", "ba", "abort ab", "abort ba", "cross ab", "cross ba", "result",
           "parked", "done", "failed"}

\* The functions the variables are; DuplexTypeOK bounds their values.
Types ==
    /\ api \in Apis
    /\ stage \in Stages
    /\ sub \in Subs
    /\ woken \in BOOLEAN
    /\ eof \in [Directions -> BOOLEAN] /\ aborted \in [Directions -> BOOLEAN]
    /\ stalled \in [Directions -> BOOLEAN]
    /\ readDone \in [Directions -> BOOLEAN] /\ needFlush \in [Directions -> BOOLEAN]
    /\ readWaker \in [Directions -> BOOLEAN] /\ writeWaker \in [Directions -> BOOLEAN]
    /\ state \in [Directions -> {"Running", "ShuttingDown", "Done"}]
    /\ how \in [Directions -> {"none", "eof", "abort", "cross"}]
    /\ result \in [Directions -> {"pending", "ready"}]
    /\ sent \in [Directions -> Nat] /\ taken \in [Directions -> Nat]
    /\ stalls \in [Directions -> Nat]
    /\ pos \in [Directions -> Nat] /\ amt \in [Directions -> Nat]
    /\ out \in [Directions -> Seq(Nat)] /\ buf \in [Directions -> Seq(Nat)]
    /\ flushes \in [Directions -> SUBSET Nat]

\* Bounds of the counters.
Bounds(d) ==
    /\ taken[d] <= sent[d] /\ sent[d] <= Len(Message[d])
    /\ stalls[d] <= MaxStalls[d]

\* How much was read, written and is still in the buffer.
Counts(d) ==
    /\ pos[d] <= Len(buf[d]) /\ Len(buf[d]) <= BufSize
    /\ pos[d] <= amt[d] /\ taken[d] + pos[d] = amt[d] + Len(buf[d])
    /\ Len(out[d]) = amt[d]

\* The bytes of b are those that follow the first k.
From(b, k) == \A i \in 1..Len(b) : b[i] = k + i

\* What was written and what is in the buffer are consecutive bytes, up to the last one read.
Bytes(d) == From(out[d], 0) /\ From(buf[d], amt[d] - pos[d])

\* The call a poll is about to make finds the buffer as the code before it left it.
Control(d) ==
    /\ Active(d) /\ sub = "fill" => pos[d] = Len(buf[d]) /\ (datagram => ~needFlush[d])
    /\ Active(d) /\ sub = "eof" => pos[d] = Len(buf[d]) /\ readDone[d]
    /\ Active(d) /\ sub = "top up" => ~datagram

\* Between the transfers no call is under way.
Between == (\A d \in Directions : ~Active(d)) => sub = "none"

\* End of file is final, and a direction that ended by it wrote and flushed everything.
Ends(d) ==
    /\ readDone[d] => AtEof(d)
    /\ how[d] = "eof" => eof[d] /\ amt[d] = sent[d] /\ sent[d] \in flushes[d]

Flushes(d) ==
    /\ \A k \in flushes[d] : k <= amt[d]
    /\ ~needFlush[d] => amt[d] \in flushes[d]

\* The buffer holds bytes of one datagram, and what was written before it is flushed.
Datagrams(d) ==
    datagram =>
        /\ \A i, j \in 1..Len(buf[d]) : Message[d][buf[d][i]] = Message[d][buf[d][j]]
        /\ pos[d] = 0 /\ buf[d] # <<>> => amt[d] \in flushes[d]
        /\ \A i \in Nat \ {0} : i < amt[d] /\ Message[d][i] # Message[d][i + 1] => i \in flushes[d]

IInv ==
    /\ Types /\ Between
    /\ \A d \in Directions : /\ Bounds(d) /\ Counts(d) /\ Bytes(d) /\ Control(d)
                             /\ Ends(d) /\ Flushes(d) /\ Datagrams(d)
-----------------------------------------------------------------------------
(* Facts about the operators. *)

\* The empty buffer is a sequence of bytes.
LEMMA EmptySeqType == <<>> \in Seq(Nat)
OBVIOUS

\* The bytes a write takes from the buffer.
LEMMA Piece ==
    ASSUME NEW b \in Seq(Nat), NEW p \in Nat, NEW n \in Nat, p + n <= Len(b)
    PROVE  /\ SubSeq(b, p + 1, p + n) \in Seq(Nat) /\ Len(SubSeq(b, p + 1, p + n)) = n
           /\ \A i \in 1..n : SubSeq(b, p + 1, p + n)[i] = b[p + i]
<1> DEFINE lo == p + 1
           hi == p + n
<1>1. lo \in Int /\ hi \in Int /\ \A i \in lo..hi : b[i] \in Nat
    OBVIOUS
<1>2. hi - lo + 1 = n /\ (IF lo <= hi THEN hi - lo + 1 ELSE 0) = n
      /\ \A i \in 1..n : lo + i - 1 = p + i
    OBVIOUS
<1> HIDE DEF lo, hi
<1>3. /\ SubSeq(b, lo, hi) \in Seq(Nat)
      /\ Len(SubSeq(b, lo, hi)) = IF lo <= hi THEN hi - lo + 1 ELSE 0
      /\ \A i \in 1 .. hi - lo + 1 : SubSeq(b, lo, hi)[i] = b[lo + i - 1]
    BY <1>1, SubSeqProperties
<1>4. QED
    BY <1>2, <1>3 DEF lo, hi

\* A sequence that counts up is known by its length.
LEMMA Counting ==
    ASSUME NEW s \in Seq(Nat), NEW a \in Nat, Len(s) = a, From(s, 0)
    PROVE  s = [i \in 1..a |-> i]
<1>1. DOMAIN s = 1..a
    OBVIOUS
<1>2. s = [i \in 1..a |-> s[i]]
    BY <1>1
<1>3. \A i \in 1..a : s[i] = i
    BY DEF From
<1>4. QED
    BY <1>2, <1>3

\* Bytes read behind those of the buffer continue them.
LEMMA JoinFrom ==
    ASSUME NEW b \in Seq(Nat), NEW c \in Seq(Nat), NEW k \in Nat,
           From(b, k), From(c, k + Len(b))
    PROVE  b \o c \in Seq(Nat) /\ Len(b \o c) = Len(b) + Len(c) /\ From(b \o c, k)
<1> DEFINE s == b \o c
<1>1. /\ s \in Seq(Nat) /\ Len(s) = Len(b) + Len(c)
      /\ \A i \in 1 .. Len(b) + Len(c) : s[i] = IF i <= Len(b) THEN b[i] ELSE c[i - Len(b)]
    BY ConcatProperties
<1> HIDE DEF s
<1>2. ASSUME NEW i \in 1..Len(s)
      PROVE  s[i] = k + i
    <2>1. CASE i <= Len(b)
        <3>1. s[i] = b[i] /\ i \in 1..Len(b)
            BY <1>1, <2>1
        <3>2. QED
            BY <3>1 DEF From
    <2>2. CASE ~(i <= Len(b))
        <3>1. i - Len(b) \in 1..Len(c) /\ s[i] = c[i - Len(b)]
            BY <1>1, <2>2
        <3>2. c[i - Len(b)] = (k + Len(b)) + (i - Len(b))
            BY <3>1 DEF From
        <3>3. (k + Len(b)) + (i - Len(b)) = k + i
            OBVIOUS
        <3>4. QED
            BY <3>1, <3>2, <3>3
    <2>3. QED
        BY <2>1, <2>2
<1>3. QED
    BY <1>1, <1>2 DEF From, s

\* A border between the bytes written and the n to be written is inside the buffer, whose
\* first p bytes are the last of the a written.
LEMMA BorderInside ==
    ASSUME NEW a \in Nat, NEW p \in Nat, NEW l \in Nat, NEW n \in Nat, NEW i \in Nat \ {0},
           p <= a, p + n <= l, a <= i, i < a + n, ~(i = a /\ p = 0)
    PROVE  /\ a - p \in Nat /\ i - (a - p) \in 1..l /\ (i - (a - p)) + 1 \in 1..l
           /\ (a - p) + (i - (a - p)) = i /\ (a - p) + ((i - (a - p)) + 1) = i + 1
<1>1. a - p \in Nat
    OBVIOUS
<1>2. i - (a - p) >= 1 /\ (i - (a - p)) + 1 <= l
    OBVIOUS
<1>3. QED
    BY <1>1, <1>2

\* So do the bytes a write takes from the buffer.
LEMMA PieceFrom ==
    ASSUME NEW b \in Seq(Nat), NEW k \in Nat, NEW p \in Nat, NEW n \in Nat,
           p + n <= Len(b), From(b, k)
    PROVE  From(SubSeq(b, p + 1, p + n), k + p)
<1> DEFINE q == SubSeq(b, p + 1, p + n)
<1>1. q \in Seq(Nat) /\ Len(q) = n /\ \A i \in 1..n : q[i] = b[p + i]
    BY Piece
<1> HIDE DEF q
<1>2. ASSUME NEW i \in 1..Len(q)
      PROVE  q[i] = (k + p) + i
    <2>0. i \in 1..n /\ Len(b) \in Nat
        BY <1>1
    <2>1. p + i \in 1..Len(b) /\ q[i] = b[p + i]
        <3>1. q[i] = b[p + i]
            BY <1>1, <2>0
        <3>2. p + i \in 1..Len(b)
            BY <2>0
        <3>3. QED
            BY <3>1, <3>2
    <2>2. b[p + i] = k + (p + i)
        BY <2>1 DEF From
    <2>3. k + (p + i) = (k + p) + i
        BY <1>1
    <2>4. QED
        BY <2>1, <2>2, <2>3
<1>3. QED
    BY <1>2 DEF From, q

\* Counting up one direction of a counter.
LEMMA CountUp ==
    ASSUME NEW f \in [Directions -> Nat], NEW d \in Directions, NEW n \in Nat
    PROVE  [f EXCEPT ![d] = @ + n] \in [Directions -> Nat]
<1>1. f[d] + n \in Nat
    OBVIOUS
<1>2. QED
    BY <1>1

\* The blocks of the closure follow one another in the order they are written.
LEMMA FollowingIs ==
    /\ Following("ab") = "ba" /\ Following("ba") = "abort ab"
    /\ Following("abort ab") = "abort ba" /\ Following("abort ba") = "cross ab"
    /\ Following("cross ab") = "cross ba" /\ Following("cross ba") = "result"
<1>1. /\ Order[1] = "ab" /\ Order[2] = "ba" /\ Order[3] = "abort ab" /\ Order[4] = "abort ba"
      /\ Order[5] = "cross ab" /\ Order[6] = "cross ba" /\ Order[7] = "result"
    BY DEF Order
<1>2. \A i \in 1..6 : i = 1 \/ i = 2 \/ i = 3 \/ i = 4 \/ i = 5 \/ i = 6
    OBVIOUS
<1>3. ASSUME NEW k \in 1..6
      PROVE  Following(Order[k]) = Order[1 + k]
    <2> DEFINE c == CHOOSE i \in 1..6 : Order[i] = Order[k]
    <2>1. c \in 1..6 /\ Order[c] = Order[k]
        OBVIOUS
    <2> HIDE DEF c
    <2>2. c = k
        BY <2>1, <1>1, <1>2
    <2>3. QED
        BY <2>2 DEF Following, c
<1>4. /\ Following(Order[1]) = Order[2] /\ Following(Order[2]) = Order[3]
      /\ Following(Order[3]) = Order[4] /\ Following(Order[4]) = Order[5]
      /\ Following(Order[5]) = Order[6] /\ Following(Order[6]) = Order[7]
    BY <1>3
<1>5. QED
    BY <1>1, <1>4

\* A block of the closure is left for another block, and only one direction is active.
LEMMA StageFacts ==
    ASSUME NEW d \in Directions, stage \in Stages
    PROVE  /\ Active(d) => Following(stage) \in Stages /\ ~Active(Other(d))
           /\ stage = AbortStage(d) => Following(stage) \in Stages
           /\ stage = CrossStage(d) => Following(stage) \in Stages
           /\ Other(d) \in Directions /\ Other(d) # d
           /\ Entry(d) \in {"top", "shut", "ready"}
           /\ Entry("ba") \in {"top", "shut", "ready"}
BY FollowingIs DEF Active, AbortStage, CrossStage, Directions, Other, Entry, Stages

\* What arrives next ends a message that is still to come.  Naturals have a least
\* element in every set that is not empty, so the choice in Arrive is one of them.
LEMMA SendableFact ==
    ASSUME Types, NEW d \in Directions, Sendable(d) # {}
    PROVE  LET next == CHOOSE n \in Sendable(d) : \A m \in Sendable(d) : n <= m
           IN  next \in Sendable(d) /\ next \in Nat
               /\ sent[d] < next /\ next <= Len(Message[d])
<1> DEFINE Less == {ss \in Nat \X Nat : ss[1] < ss[2]}
<1>0. Sendable(d) \subseteq Nat /\ \A n \in Sendable(d) : sent[d] < n /\ n <= Len(Message[d])
    <2>1. sent[d] \in Nat /\ Len(Message[d]) \in Nat
        BY DuplexAssumption DEF Types
    <2>2. Sendable(d) \subseteq sent[d] + 1 .. Len(Message[d])
        BY DEF Sendable
    <2>3. \A n \in sent[d] + 1 .. Len(Message[d]) : n \in Nat /\ sent[d] < n /\ n <= Len(Message[d])
        BY <2>1
    <2>4. QED
        BY <2>2, <2>3
<1>1. IsWellFoundedOn(Less, Nat)
    <2>1. Less = OpToRel(<, Nat)
        BY DEF OpToRel
    <2>2. QED
        BY <2>1, NatLessThanWellFounded, Zenon
<1>2. PICK x \in Sendable(d) : \A y \in Sendable(d) : ~(<<y, x>> \in Less)
    <2> HIDE DEF Less
    <2>1. QED
        BY <1>0, <1>1, WFMin, Zenon
<1>3. \A y \in Sendable(d) : x <= y
    <2> SUFFICES ASSUME NEW y \in Sendable(d)
                 PROVE  x <= y
        OBVIOUS
    <2>1. ~(<<y, x>> \in Less)
        BY <1>2, Zenon
    <2>2. QED
        BY <2>1, <1>0
<1>4. QED
    BY <1>0, <1>3

-----------------------------------------------------------------------------
(* Types. *)

\* The calls of a transfer that leave the bytes alone keep the types.
LEMMA TypesQuiet ==
    ASSUME Types, NEW d \in Directions,
           \/ AlreadyDone(d) \/ TopSkip(d) \/ TopFlush(d) \/ WriterPending(d)
           \/ IdleFlush(d) \/ Written(d) \/ WritePending(d) \/ Eof(d) \/ Shutdown(d)
    PROVE  Types'
<1>0. Len(out[d]) \in Nat
    BY DEF Types
<1> USE StageFacts DEF Types, Subs, Stages
<1>1. CASE AlreadyDone(d)
    BY <1>1 DEF AlreadyDone, Proceed, peerVars, writerVars, bufVars, wakers
<1>2. CASE TopSkip(d)
    BY <1>2 DEF TopSkip, AfterTop, peerVars, writerVars, bufVars, wakers
<1>3. CASE TopFlush(d)
    BY <1>0, <1>3 DEF TopFlush, AfterTop, Flushed, peerVars, wakers
<1>4. CASE WriterPending(d)
    BY <1>4 DEF WriterPending, Push, Proceed, peerVars, writerVars, bufVars
<1>5. CASE IdleFlush(d)
    BY <1>0, <1>5 DEF IdleFlush, Flushed, Proceed, peerVars, wakers
<1>6. CASE Written(d)
    BY <1>6 DEF Written, peerVars, writerVars, bufVars, wakers
<1>7. CASE WritePending(d)
    BY <1>7 DEF WritePending, Push, Proceed, peerVars, writerVars, bufVars
<1>8. CASE Eof(d)
    BY <1>0, <1>8 DEF Eof, Flushed, peerVars, bufVars, wakers
<1>9. CASE Shutdown(d)
    BY <1>0, <1>9 DEF Shutdown, Flushed, Proceed, peerVars, bufVars, wakers
<1>10. QED
    BY <1>1, <1>2, <1>3, <1>4, <1>5, <1>6, <1>7, <1>8, <1>9

\* So do the calls that read into the buffer or write from it.
LEMMA TypesBusy ==
    ASSUME Types, NEW d \in Directions,
           Fill(d) \/ FillPending(d) \/ Write(d) \/ TopUp(d)
    PROVE  Types'
<1>0. ASSUME NEW n \in Nat
      PROVE  NextBytes(d, n) \in Seq(Nat) /\ buf[d] \o NextBytes(d, n) \in Seq(Nat)
    <2>1. NextBytes(d, n) \in Seq(Nat)
        BY DEF NextBytes, Types
    <2>2. buf[d] \in Seq(Nat)
        BY DEF Types
    <2>3. QED
        BY <2>1, <2>2
<1>1. \A room : Portion(d, room) \subseteq Nat
    BY DEF Portion, Chunks
<1>2. CASE Fill(d)
    <2>1. /\ buf' \in [Directions -> Seq(Nat)] /\ taken' \in [Directions -> Nat]
          /\ readDone' \in [Directions -> BOOLEAN]
        <3>1. CASE AtEof(d) /\ readDone' = [readDone EXCEPT ![d] = TRUE]
                   /\ buf' = [buf EXCEPT ![d] = <<>>] /\ UNCHANGED taken
            BY <3>1, EmptySeqType DEF Types
        <3>2. CASE \E n \in Portion(d, BufSize) :
                     /\ buf' = [buf EXCEPT ![d] = NextBytes(d, n)]
                     /\ taken' = [taken EXCEPT ![d] = @ + n]
                     /\ UNCHANGED readDone
            <4>1. PICK n \in Nat : /\ buf' = [buf EXCEPT ![d] = NextBytes(d, n)]
                                   /\ taken' = [taken EXCEPT ![d] = @ + n]
                BY <3>2, <1>1
            <4>2. taken \in [Directions -> Nat] /\ buf \in [Directions -> Seq(Nat)]
                BY DEF Types
            <4>3. /\ [taken EXCEPT ![d] = @ + n] \in [Directions -> Nat]
                  /\ NextBytes(d, n) \in Seq(Nat)
                BY <4>2, <1>0, CountUp
            <4>4. QED
                BY <3>2, <4>1, <4>2, <4>3 DEF Types
        <3>3. QED
            BY <1>2, <3>1, <3>2 DEF Fill
    <2>2. QED
        BY <1>2, <2>1 DEF Fill, Types, Subs, peerVars, writerVars, wakers
<1>3. CASE FillPending(d)
    BY <1>3, EmptySeqType, StageFacts DEF FillPending, Proceed, peerVars, writerVars, Types, Subs
<1>4. CASE Write(d)
    <2>1. PICK n \in 1 .. Len(buf[d]) - pos[d] :
             /\ out' = [out EXCEPT ![d] = @ \o SubSeq(buf[d], pos[d] + 1, pos[d] + n)]
             /\ pos' = [pos EXCEPT ![d] = @ + n] /\ amt' = [amt EXCEPT ![d] = @ + n]
        BY <1>4 DEF Write
    <2>2. /\ n \in Nat /\ pos \in [Directions -> Nat] /\ amt \in [Directions -> Nat]
          /\ out[d] \in Seq(Nat) /\ buf[d] \in Seq(Nat) /\ out \in [Directions -> Seq(Nat)]
        BY DEF Types
    <2>3. SubSeq(buf[d], pos[d] + 1, pos[d] + n) \in Seq(Nat)
        <3>1. pos[d] \in Nat /\ pos[d] + n <= Len(buf[d])
            BY <2>2
        <3>2. QED
            BY <2>2, <3>1, Piece
    <2>4. out[d] \o SubSeq(buf[d], pos[d] + 1, pos[d] + n) \in Seq(Nat)
        BY <2>2, <2>3
    <2>5. /\ out' \in [Directions -> Seq(Nat)] /\ pos' \in [Directions -> Nat]
          /\ amt' \in [Directions -> Nat]
        BY <2>1, <2>2, <2>4, CountUp
    <2>6. QED
        BY <1>4, <2>5 DEF Write, Types, peerVars, wakers
<1>5. CASE TopUp(d)
    <2>1. /\ buf' \in [Directions -> Seq(Nat)] /\ taken' \in [Directions -> Nat]
          /\ readDone' \in [Directions -> BOOLEAN] /\ readWaker' \in [Directions -> BOOLEAN]
        <3>1. CASE \E n \in Portion(d, BufSize - Len(buf[d])) :
                     /\ buf' = [buf EXCEPT ![d] = @ \o NextBytes(d, n)]
                     /\ taken' = [taken EXCEPT ![d] = @ + n]
                     /\ UNCHANGED <<readDone, readWaker>>
            <4>1. PICK n \in Nat : /\ buf' = [buf EXCEPT ![d] = @ \o NextBytes(d, n)]
                                   /\ taken' = [taken EXCEPT ![d] = @ + n]
                BY <3>1, <1>1
            <4>2. taken \in [Directions -> Nat] /\ buf \in [Directions -> Seq(Nat)]
                BY DEF Types
            <4>3. /\ [taken EXCEPT ![d] = @ + n] \in [Directions -> Nat]
                  /\ buf[d] \o NextBytes(d, n) \in Seq(Nat)
                BY <4>2, <1>0, CountUp
            <4>4. QED
                BY <3>1, <4>1, <4>2, <4>3 DEF Types
        <3>2. CASE UNCHANGED <<buf, taken, readWaker>>
                   /\ readDone' = [readDone EXCEPT ![d] = TRUE]
            BY <3>2 DEF Types
        <3>3. CASE UNCHANGED <<buf, taken, readDone>>
                   /\ readWaker' = [readWaker EXCEPT ![d] = TRUE]
            BY <3>3 DEF Types
        <3>4. QED
            BY <1>5, <3>1, <3>2, <3>3 DEF TopUp
    <2>2. QED
        BY <1>5, <2>1, StageFacts DEF TopUp, Proceed, peerVars, writerVars, Types, Subs
<1>6. QED
    BY <1>2, <1>3, <1>4, <1>5

\* The peers, the abort handles and the blocks around the transfers keep them too.
LEMMA TypesAround ==
    ASSUME Types, NEW d \in Directions,
           \/ Poll \/ Result \/ AbortBlock(d) \/ Cross(d) \/ IoError(d)
           \/ Arrive(d) \/ Close(d) \/ Stall(d) \/ Unstall(d) \/ Abort(d)
    PROVE  Types'
<1> USE StageFacts DEF Types, Subs, Stages
<1>1. CASE Poll
    BY <1>1 DEF Poll, Entry, peerVars, writerVars, bufVars, wakers
<1>2. CASE Result
    BY <1>2 DEF Result, peerVars, writerVars, bufVars, wakers
<1>3. CASE AbortBlock(d)
    BY <1>3 DEF AbortBlock, peerVars, writerVars, bufVars, wakers
<1>4. CASE Cross(d)
    BY <1>4 DEF Cross, peerVars, writerVars, bufVars, wakers
<1>5. CASE IoError(d)
    BY <1>5 DEF IoError, peerVars, writerVars, bufVars, wakers
<1>6. CASE Arrive(d)
    <2>1. sent'[d] \in Nat
        BY <1>6, SendableFact DEF Arrive
    <2>2. QED
        BY <1>6, <2>1 DEF Arrive, WakeReader, writerVars, bufVars
<1>7. CASE Close(d)
    BY <1>7 DEF Close, WakeReader, writerVars, bufVars
<1>8. CASE Stall(d)
    <2>1. stalls' \in [Directions -> Nat]
        <3>1. stalls \in [Directions -> Nat] /\ stalls' = [stalls EXCEPT ![d] = @ + 1]
            BY <1>8 DEF Stall
        <3>2. QED
            BY <3>1, CountUp
    <2>2. QED
        BY <1>8, <2>1 DEF Stall, peerVars, bufVars, wakers
<1>9. CASE Unstall(d)
    BY <1>9 DEF Unstall, peerVars, bufVars
<1>10. CASE Abort(d)
    BY <1>10 DEF Abort, writerVars, bufVars, wakers
<1>11. QED
    BY <1>1, <1>2, <1>3, <1>4, <1>5, <1>6, <1>7, <1>8, <1>9, <1>10

\* Every step keeps the types.
LEMMA TypesStep ==
    ASSUME Types, [Next]_vars
    PROVE  Types'
<1>1. CASE UNCHANGED vars
    BY <1>1 DEF Types, vars, peerVars, writerVars, bufVars, wakers
<1>2. CASE Poll \/ Result
    BY <1>2, TypesAround DEF Directions
<1>3. CASE \E d \in Directions : Transfer(d)
    BY <1>3, TypesQuiet, TypesBusy DEF Transfer
<1>4. CASE \E d \in Directions :
             \/ AbortBlock(d) \/ Cross(d) \/ IoError(d)
             \/ Arrive(d) \/ Close(d) \/ Stall(d) \/ Unstall(d) \/ Abort(d)
    BY <1>4, TypesAround
<1>5. QED
    BY <1>1, <1>2, <1>3, <1>4 DEF Next, Task
-----------------------------------------------------------------------------
(* What a step does to one direction. *)

\* Everything the invariant says of a direction's data, apart from its flushes.
SameBuffer(e) == pos'[e] = pos[e] /\ buf'[e] = buf[e]
SameRead(e) == sent'[e] = sent[e] /\ taken'[e] = taken[e] /\ eof'[e] = eof[e] /\ readDone'[e] = readDone[e]
SameWritten(e) == out'[e] = out[e] /\ amt'[e] = amt[e]
SameFlush(e) == flushes'[e] = flushes[e] /\ needFlush'[e] = needFlush[e]

Nothing(e) == SameBuffer(e) /\ SameRead(e) /\ SameWritten(e) /\ SameFlush(e)

\* A flush of the writer completed.
Flushing(e) ==
    /\ SameBuffer(e) /\ SameRead(e) /\ SameWritten(e)
    /\ flushes'[e] = flushes[e] \cup {Len(out[e])}
    /\ needFlush'[e] \in {needFlush[e], FALSE}

\* n more bytes were read, into an empty buffer or behind what it holds.
Reading(e, n) ==
    /\ n > 0 /\ taken[e] + n <= sent[e] /\ taken'[e] = taken[e] + n
    /\ sent'[e] = sent[e] /\ eof'[e] = eof[e] /\ readDone'[e] = readDone[e]
    /\ SameWritten(e) /\ SameFlush(e) /\ Active(e)
    /\ \/ /\ sub = "fill" /\ n <= BufSize /\ pos'[e] = 0 /\ buf'[e] = NextBytes(e, n)
          /\ datagram => \A k \in 1..n : Message[e][taken[e] + k] = Message[e][taken[e] + 1]
       \/ /\ sub = "top up" /\ n <= BufSize - Len(buf[e])
          /\ pos'[e] = pos[e] /\ buf'[e] = buf[e] \o NextBytes(e, n)

\* The reader was at its end, or had nothing yet.
NotReading(e) ==
    /\ sent'[e] = sent[e] /\ taken'[e] = taken[e] /\ eof'[e] = eof[e]
    /\ readDone'[e] = readDone[e] \/ AtEof(e)
    /\ SameWritten(e) /\ SameFlush(e)
    /\ SameBuffer(e) \/ (Active(e) /\ sub = "fill" /\ pos'[e] = 0 /\ buf'[e] = <<>>)

\* The writer accepted n bytes of the buffer.
Writing(e, n) ==
    /\ n > 0 /\ pos[e] + n <= Len(buf[e]) /\ pos'[e] = pos[e] + n /\ buf'[e] = buf[e]
    /\ out'[e] = out[e] \o SubSeq(buf[e], pos[e] + 1, pos[e] + n)
    /\ amt'[e] = amt[e] + n /\ SameRead(e)
    /\ flushes'[e] = flushes[e] /\ needFlush'[e]

\* The peer sent more or closed.
Sending(e) ==
    /\ ~eof[e] /\ sent[e] <= sent'[e] /\ sent'[e] <= Len(Message[e])
    /\ taken'[e] = taken[e] /\ readDone'[e] = readDone[e]
    /\ sent'[e] = sent[e] \/ eof'[e] = eof[e]
    /\ SameBuffer(e) /\ SameWritten(e) /\ SameFlush(e)

Effect(e) ==
    \/ Nothing(e) \/ Flushing(e) \/ NotReading(e) \/ Sending(e)
    \/ \E n \in Nat : Reading(e, n) \/ Writing(e, n)

\* The calls of a transfer that leave the bytes alone.
LEMMA EffectQuiet ==
    ASSUME Types, NEW e \in Directions, NEW d \in Directions,
           \/ AlreadyDone(d) \/ TopSkip(d) \/ TopFlush(d) \/ WriterPending(d)
           \/ IdleFlush(d) \/ Written(d) \/ WritePending(d) \/ Eof(d) \/ Shutdown(d)
    PROVE  Nothing(e) \/ Flushing(e)
<1> USE DEF Nothing, SameBuffer, SameRead, SameWritten, SameFlush
<1>1. CASE AlreadyDone(d)
    BY <1>1 DEF AlreadyDone, peerVars, writerVars, bufVars
<1>2. CASE TopSkip(d)
    BY <1>2 DEF TopSkip, peerVars, writerVars, bufVars
<1>3. CASE WriterPending(d)
    BY <1>3 DEF WriterPending, peerVars, writerVars, bufVars
<1>4. CASE Written(d)
    BY <1>4 DEF Written, peerVars, writerVars, bufVars
<1>5. CASE WritePending(d)
    BY <1>5 DEF WritePending, peerVars, writerVars, bufVars
<1>6. CASE TopFlush(d)
    BY <1>6 DEF TopFlush, Flushed, Flushing, peerVars, Types
<1>7. CASE IdleFlush(d)
    BY <1>7 DEF IdleFlush, Flushed, Flushing, peerVars, Types
<1>8. CASE Eof(d)
    BY <1>8 DEF Eof, Flushed, Flushing, peerVars, bufVars, Types
<1>9. CASE Shutdown(d)
    BY <1>9 DEF Shutdown, Flushed, Flushing, peerVars, bufVars, Types
<1>10. QED
    BY <1>1, <1>2, <1>3, <1>4, <1>5, <1>6, <1>7, <1>8, <1>9

\* The calls that read or write.
LEMMA EffectBusy ==
    ASSUME Types, NEW e \in Directions, NEW d \in Directions,
           Fill(d) \/ FillPending(d) \/ Write(d) \/ TopUp(d)
    PROVE  Effect(e)
<1> USE DEF SameBuffer, SameRead, SameWritten, SameFlush
<1>0. ASSUME NEW room, NEW n \in Portion(d, room)
      PROVE  /\ n \in Nat /\ n > 0 /\ n <= room /\ taken[d] + n <= sent[d]
             /\ datagram => \A k \in 1..n : Message[d][taken[d] + k] = Message[d][taken[d] + 1]
    BY DEF Portion, Chunks
<1>1. CASE Fill(d) /\ e = d
    <2>1. CASE \E n \in Portion(d, BufSize) :
                  /\ buf' = [buf EXCEPT ![d] = NextBytes(d, n)]
                  /\ taken' = [taken EXCEPT ![d] = @ + n]
                  /\ UNCHANGED readDone
        <3>1. PICK n \in Portion(d, BufSize) :
                  /\ buf' = [buf EXCEPT ![d] = NextBytes(d, n)]
                  /\ taken' = [taken EXCEPT ![d] = @ + n]
            BY <2>1
        <3>2. Reading(e, n)
            BY <1>0, <1>1, <2>1, <3>1 DEF Reading, Fill, peerVars, writerVars, Types
        <3>3. QED
            BY <3>2, <1>0 DEF Effect
    <2>2. CASE AtEof(d) /\ buf' = [buf EXCEPT ![d] = <<>>] /\ UNCHANGED taken
        BY <1>1, <2>2 DEF Effect, NotReading, Fill, peerVars, writerVars, Types
    <2>3. QED
        BY <1>1, <2>1, <2>2 DEF Fill
<1>2. CASE FillPending(d) /\ e = d
    BY <1>2 DEF Effect, NotReading, FillPending, peerVars, writerVars, Types
<1>3. CASE Write(d) /\ e = d
    <2>1. PICK n \in 1 .. Len(buf[d]) - pos[d] :
             /\ out' = [out EXCEPT ![d] = @ \o SubSeq(buf[d], pos[d] + 1, pos[d] + n)]
             /\ pos' = [pos EXCEPT ![d] = @ + n] /\ amt' = [amt EXCEPT ![d] = @ + n]
        BY <1>3 DEF Write
    <2>2. n \in Nat /\ n > 0 /\ pos[d] + n <= Len(buf[d])
        <3>1. pos[d] \in Nat /\ Len(buf[d]) \in Nat
            BY DEF Types
        <3>2. QED
            BY <3>1
    <2>3. Writing(e, n)
        BY <1>3, <2>1, <2>2 DEF Writing, Write, peerVars, Types
    <2>4. QED
        BY <2>2, <2>3 DEF Effect
<1>4. CASE TopUp(d) /\ e = d
    <2>1. CASE \E n \in Portion(d, BufSize - Len(buf[d])) :
                  /\ buf' = [buf EXCEPT ![d] = @ \o NextBytes(d, n)]
                  /\ taken' = [taken EXCEPT ![d] = @ + n]
                  /\ UNCHANGED <<readDone, readWaker>>
        <3>1. PICK n \in Portion(d, BufSize - Len(buf[d])) :
                  /\ buf' = [buf EXCEPT ![d] = @ \o NextBytes(d, n)]
                  /\ taken' = [taken EXCEPT ![d] = @ + n]
            BY <2>1
        <3>2. Reading(e, n)
            BY <1>0, <1>4, <2>1, <3>1 DEF Reading, TopUp, peerVars, writerVars, Types
        <3>3. QED
            BY <3>2, <1>0 DEF Effect
    <2>2. CASE UNCHANGED <<buf, taken>> /\ (AtEof(d) \/ UNCHANGED readDone)
        BY <1>4, <2>2 DEF Effect, NotReading, TopUp, peerVars, writerVars, Types
    <2>3. QED
        BY <1>4, <2>1, <2>2 DEF TopUp
<1>5. CASE e # d
    <2>1. Nothing(e)
        <3>1. CASE Fill(d)
            BY <1>5, <3>1 DEF Nothing, Fill, peerVars, writerVars, Types
        <3>2. CASE FillPending(d)
            BY <1>5, <3>2 DEF Nothing, FillPending, peerVars, writerVars, Types
        <3>3. CASE Write(d)
            BY <1>5, <3>3 DEF Nothing, Write, peerVars, Types
        <3>4. CASE TopUp(d)
            BY <1>5, <3>4 DEF Nothing, TopUp, peerVars, writerVars, Types
        <3>5. QED
            BY <3>1, <3>2, <3>3, <3>4
    <2>2. QED
        BY <2>1 DEF Effect
<1>6. QED
    BY <1>1, <1>2, <1>3, <1>4, <1>5

\* The peers, the abort handles and the blocks around the transfers.
LEMMA EffectAround ==
    ASSUME Types, \A f \in Directions : Bounds(f), NEW e \in Directions, NEW d \in Directions,
           \/ Poll \/ Result \/ AbortBlock(d) \/ Cross(d) \/ IoError(d)
           \/ Arrive(d) \/ Close(d) \/ Stall(d) \/ Unstall(d) \/ Abort(d)
    PROVE  Nothing(e) \/ Sending(e)
<1> USE DEF Nothing, SameBuffer, SameRead, SameWritten, SameFlush
<1>1. CASE Poll \/ Result
    BY <1>1 DEF Poll, Result, peerVars, writerVars, bufVars
<1>2. CASE AbortBlock(d) \/ Cross(d)
    BY <1>2 DEF AbortBlock, Cross, peerVars, writerVars, bufVars
<1>3. CASE IoError(d)
    BY <1>3 DEF IoError, peerVars, writerVars, bufVars
<1>4. CASE Arrive(d)
    <2>1. e = d => sent[d] <= sent'[d] /\ sent'[d] <= Len(Message[d])
        <3>1. Sendable(d) # {} /\ sent[d] \in Nat
            BY <1>4 DEF Arrive, Types
        <3>2. sent'[d] = CHOOSE n \in Sendable(d) : \A m \in Sendable(d) : n <= m
            BY <1>4 DEF Arrive, Types
        <3>3. sent[d] < sent'[d] /\ sent'[d] \in Nat /\ sent'[d] <= Len(Message[d])
            BY <3>1, <3>2, SendableFact
        <3>4. QED
            BY <3>1, <3>3
    <2>2. QED
        BY <1>4, <2>1 DEF Arrive, Sending, writerVars, bufVars, Types
<1>5. CASE Close(d)
    <2>1. sent[e] \in Nat /\ sent[e] <= Len(Message[e])
        BY DEF Bounds, Types
    <2>2. e = d => Sending(e)
        BY <1>5, <2>1 DEF Close, Sending, writerVars, bufVars
    <2>3. e # d => Nothing(e)
        BY <1>5 DEF Close, writerVars, bufVars, Types
    <2>4. QED
        BY <2>2, <2>3
<1>6. CASE Stall(d)
    BY <1>6 DEF Stall, peerVars, bufVars
<1>7. CASE Unstall(d)
    BY <1>7 DEF Unstall, peerVars, bufVars
<1>8. CASE Abort(d)
    BY <1>8 DEF Abort, writerVars, bufVars
<1>9. QED
    BY <1>1, <1>2, <1>3, <1>4, <1>5, <1>6, <1>7, <1>8

\* Every step has one of these effects on every direction.
LEMMA EffectStep ==
    ASSUME Types, \A f \in Directions : Bounds(f), [Next]_vars, NEW e \in Directions
    PROVE  Effect(e)
<1>1. CASE UNCHANGED vars
    BY <1>1 DEF Effect, Nothing, SameBuffer, SameRead, SameWritten, SameFlush,
                vars, peerVars, writerVars, bufVars
<1>2. CASE Poll \/ Result
    BY <1>2, EffectAround DEF Effect
<1>3. CASE \E d \in Directions : Transfer(d)
    BY <1>3, EffectQuiet, EffectBusy DEF Transfer, Effect
<1>4. CASE \E d \in Directions :
             \/ AbortBlock(d) \/ Cross(d) \/ IoError(d)
             \/ Arrive(d) \/ Close(d) \/ Stall(d) \/ Unstall(d) \/ Abort(d)
    BY <1>4, EffectAround DEF Effect
<1>5. QED
    BY <1>1, <1>2, <1>3, <1>4 DEF Next, Task

-----------------------------------------------------------------------------
(* Counts and bytes. *)

\* The bytes a read would return are numbered on from those already taken.
LEMMA Readable ==
    ASSUME Types, NEW e \in Directions, NEW n \in Nat
    PROVE  /\ NextBytes(e, n) \in Seq(Nat) /\ Len(NextBytes(e, n)) = n
           /\ From(NextBytes(e, n), taken[e])
<1>1. taken[e] \in Nat
    BY DEF Types
<1>2. NextBytes(e, n) \in Seq(Nat) /\ Len(NextBytes(e, n)) = n
    BY <1>1 DEF NextBytes
<1>3. \A i \in 1..n : NextBytes(e, n)[i] = taken[e] + i
    BY <1>1 DEF NextBytes
<1>4. QED
    BY <1>2, <1>3 DEF From

\* The numbers and sequences of one direction.
LEMMA DataTypes ==
    ASSUME Types, NEW e \in Directions
    PROVE  /\ pos[e] \in Nat /\ amt[e] \in Nat /\ taken[e] \in Nat /\ sent[e] \in Nat
           /\ buf[e] \in Seq(Nat) /\ out[e] \in Seq(Nat)
           /\ Len(buf[e]) \in Nat /\ Len(out[e]) \in Nat /\ BufSize \in Nat
BY DuplexAssumption DEF Types

\* A step that writes none and reads none leaves the counts and the bytes as they were.
LEMMA StillStep ==
    ASSUME Types, NEW e \in Directions, Counts(e), Bytes(e), Control(e),
           \/ Nothing(e) \/ Flushing(e) \/ Sending(e) \/ NotReading(e)
    PROVE  Counts(e)' /\ Bytes(e)'
<1>1. CASE SameBuffer(e)
    BY <1>1 DEF Nothing, Flushing, Sending, NotReading, SameBuffer, SameRead, SameWritten,
                Counts, Bytes, From
<1>2. CASE Active(e) /\ sub = "fill" /\ pos'[e] = 0 /\ buf'[e] = <<>> /\ NotReading(e)
    <2>1. pos[e] = Len(buf[e])
        BY <1>2 DEF Control
    <2>2. taken'[e] = taken[e] /\ amt'[e] = amt[e] /\ out'[e] = out[e]
        BY <1>2 DEF NotReading, SameWritten
    <2>3. Len(buf'[e]) = 0
        BY <1>2
    <2>4. Counts(e)'
        BY <1>2, <2>1, <2>2, <2>3, DataTypes DEF Counts
    <2>5. Bytes(e)'
        BY <2>2, <2>3, DataTypes DEF Bytes, From
    <2>6. QED
        BY <2>4, <2>5
<1>3. QED
    BY <1>1, <1>2 DEF Nothing, Flushing, Sending, NotReading

\* Reading puts the bytes that follow into the buffer.
LEMMA ReadingStep ==
    ASSUME Types, NEW e \in Directions, Counts(e), Bytes(e), Control(e),
           NEW n \in Nat, Reading(e, n)
    PROVE  Counts(e)' /\ Bytes(e)'
<1>0. amt'[e] = amt[e] /\ out'[e] = out[e] /\ taken'[e] = taken[e] + n
    BY DEF Reading, SameWritten
<1>00. /\ pos[e] \in Nat /\ amt[e] \in Nat /\ taken[e] \in Nat /\ Len(buf[e]) \in Nat
      /\ Len(out[e]) \in Nat /\ BufSize \in Nat
    BY DataTypes
<1>1. CASE sub = "fill"
    <2>1. pos'[e] = 0 /\ buf'[e] = NextBytes(e, n) /\ pos[e] = Len(buf[e]) /\ n <= BufSize
        BY <1>1 DEF Reading, Control
    <2>2. taken[e] = amt[e]
        <3>1. pos[e] = Len(buf[e])
            BY <2>1
        <3>2. QED
            BY <1>00, <3>1 DEF Counts
    <2>3. Counts(e)'
        <3>1. Len(buf'[e]) = n /\ pos'[e] = 0 /\ n <= BufSize
            BY <2>1, Readable
        <3>2. QED
            BY <1>0, <1>00, <2>2, <3>1 DEF Counts
    <2>4. amt'[e] - pos'[e] = taken[e]
        BY <1>0, <1>00, <2>1, <2>2
    <2>5. Bytes(e)'
        BY <1>0, <2>1, <2>4, Readable DEF Bytes
    <2>6. QED
        BY <2>3, <2>5
<1>2. CASE sub = "top up"
    <2>1. /\ pos'[e] = pos[e] /\ buf'[e] = buf[e] \o NextBytes(e, n)
          /\ n <= BufSize - Len(buf[e])
        BY <1>2 DEF Reading
    <2> DEFINE k == amt[e] - pos[e]
    <2>2. k \in Nat /\ k + Len(buf[e]) = taken[e]
        <3>1. pos[e] <= amt[e] /\ taken[e] + pos[e] = amt[e] + Len(buf[e])
            BY DEF Counts
        <3>2. QED
            BY <1>00, <3>1
    <2>22. amt'[e] - pos'[e] = k
        BY <1>0, <2>1
    <2>3. From(buf[e], k)
        BY DEF Bytes
    <2> HIDE DEF k
    <2>4. Len(buf'[e]) = Len(buf[e]) + n /\ From(buf'[e], k)
        <3> DEFINE c == NextBytes(e, n)
        <3>1. /\ buf[e] \in Seq(Nat) /\ c \in Seq(Nat) /\ Len(c) = n
              /\ From(c, k + Len(buf[e]))
            BY <2>2, DataTypes, Readable
        <3> HIDE DEF c
        <3>2. Len(buf[e] \o c) = Len(buf[e]) + Len(c) /\ From(buf[e] \o c, k)
            BY <2>2, <2>3, <3>1, JoinFrom
        <3>3. QED
            BY <2>1, <3>1, <3>2 DEF c
    <2>5. Counts(e)'
        <3>1. pos'[e] = pos[e] /\ n <= BufSize - Len(buf[e]) /\ Len(buf'[e]) = Len(buf[e]) + n
            BY <2>1, <2>4
        <3>2. pos[e] <= Len(buf[e]) /\ pos[e] <= amt[e] /\ Len(out[e]) = amt[e]
            BY DEF Counts
        <3>3. (taken[e] + n) + pos[e] = amt[e] + (Len(buf[e]) + n)
            <4>1. taken[e] + pos[e] = amt[e] + Len(buf[e])
                BY DEF Counts
            <4> DEFINE t == taken[e]  p == pos[e]  a == amt[e]  l == Len(buf[e])
            <4>2. t \in Nat /\ p \in Nat /\ a \in Nat /\ l \in Nat /\ t + p = a + l
                BY <1>00, <4>1
            <4> HIDE DEF t, p, a, l
            <4>3. (t + n) + p = a + (l + n)
                BY <4>2
            <4>4. QED
                BY <4>3 DEF t, p, a, l
        <3>4. pos[e] <= Len(buf[e]) + n /\ Len(buf[e]) + n <= BufSize
            BY <1>00, <3>1, <3>2
        <3>5. QED
            BY <1>0, <3>1, <3>2, <3>3, <3>4 DEF Counts
    <2>6. Bytes(e)'
        BY <1>0, <2>22, <2>4 DEF Bytes
    <2>7. QED
        BY <2>5, <2>6
<1>3. QED
    BY <1>1, <1>2 DEF Reading

\* Writing moves the border between what was written and what is buffered.
LEMMA WritingStep ==
    ASSUME Types, NEW e \in Directions, Counts(e), Bytes(e),
           NEW n \in Nat, Writing(e, n)
    PROVE  Counts(e)' /\ Bytes(e)'
<1> DEFINE k == amt[e] - pos[e]
           q == SubSeq(buf[e], pos[e] + 1, pos[e] + n)
<1>1. /\ pos[e] + n <= Len(buf[e]) /\ out'[e] = out[e] \o q
      /\ amt'[e] = amt[e] + n /\ pos'[e] = pos[e] + n /\ buf'[e] = buf[e]
      /\ taken'[e] = taken[e]
    BY DEF Writing, SameRead
<1>0. /\ pos[e] \in Nat /\ amt[e] \in Nat /\ taken[e] \in Nat /\ Len(buf[e]) \in Nat
      /\ Len(out[e]) \in Nat /\ BufSize \in Nat
    BY DataTypes
<1>2. k \in Nat /\ k + pos[e] = Len(out[e])
    BY <1>0 DEF Counts
<1>22. amt'[e] - pos'[e] = k
    BY <1>0, <1>1
<1>3. From(buf[e], k) /\ From(out[e], 0)
    BY DEF Bytes
<1> HIDE DEF k
<1>4. q \in Seq(Nat) /\ Len(q) = n /\ From(q, k + pos[e])
    <2>1. buf[e] \in Seq(Nat) /\ pos[e] + n <= Len(buf[e])
        BY <1>1, DataTypes
    <2>2. q \in Seq(Nat) /\ Len(q) = n
        BY <1>0, <2>1, Piece
    <2>3. From(q, k + pos[e])
        BY <1>0, <1>2, <1>3, <2>1, PieceFrom
    <2>4. QED
        BY <2>2, <2>3
<1> HIDE DEF q
<1>5. Len(out'[e]) = Len(out[e]) + n /\ From(out'[e], 0)
    <2>1. out[e] \in Seq(Nat) /\ 0 + Len(out[e]) = k + pos[e]
        BY <1>0, <1>2, DataTypes
    <2>2. Len(out[e] \o q) = Len(out[e]) + Len(q) /\ From(out[e] \o q, 0)
        BY <1>3, <1>4, <2>1, JoinFrom
    <2>3. QED
        BY <1>1, <1>4, <2>2
<1>6. Counts(e)'
    <2>1. /\ pos[e] + n <= Len(buf[e]) /\ amt'[e] = amt[e] + n /\ pos'[e] = pos[e] + n
          /\ Len(buf'[e]) = Len(buf[e]) /\ taken'[e] = taken[e] /\ Len(out'[e]) = Len(out[e]) + n
        BY <1>1, <1>5
    <2>2. pos[e] <= amt[e] /\ Len(buf[e]) <= BufSize /\ Len(out[e]) = amt[e]
        BY DEF Counts
    <2>3. taken[e] + (pos[e] + n) = (amt[e] + n) + Len(buf[e])
        <3>1. taken[e] + pos[e] = amt[e] + Len(buf[e])
            BY DEF Counts
        <3> DEFINE t == taken[e]  p == pos[e]  a == amt[e]  l == Len(buf[e])
        <3>2. t \in Nat /\ p \in Nat /\ a \in Nat /\ l \in Nat /\ t + p = a + l
            BY <1>0, <3>1
        <3> HIDE DEF t, p, a, l
        <3>3. t + (p + n) = (a + n) + l
            BY <3>2
        <3>4. QED
            BY <3>3 DEF t, p, a, l
    <2>4. pos[e] + n <= amt[e] + n
        BY <1>0, <2>2
    <2>5. QED
        BY <2>1, <2>2, <2>3, <2>4 DEF Counts
<1>7. Bytes(e)'
    BY <1>1, <1>22, <1>3, <1>5 DEF Bytes
<1>8. QED
    BY <1>6, <1>7

\* Every step keeps the bytes of both directions in order.
LEMMA BytesStep ==
    ASSUME Types, NEW e \in Directions, Effect(e), Counts(e), Bytes(e), Control(e)
    PROVE  Counts(e)' /\ Bytes(e)'
BY StillStep, ReadingStep, WritingStep DEF Effect

-----------------------------------------------------------------------------
(* Bounds, ends and flushes. *)

\* Reading never overtakes sending; the stalls are counted up to their bound.
LEMMA BoundsStep ==
    ASSUME Types, \A f \in Directions : Bounds(f), [Next]_vars, NEW e \in Directions
    PROVE  Bounds(e)'
<1>0. /\ taken[e] \in Nat /\ sent[e] \in Nat /\ stalls[e] \in Nat /\ Len(Message[e]) \in Nat
      /\ taken[e] <= sent[e] /\ sent[e] <= Len(Message[e]) /\ stalls[e] <= MaxStalls[e]
      /\ MaxStalls[e] \in Nat
    BY DuplexAssumption DEF Types, Bounds
<1>1. taken'[e] <= sent'[e] /\ sent'[e] <= Len(Message[e])
    <2>0. taken' \in [Directions -> Nat] /\ sent' \in [Directions -> Nat]
        BY TypesStep DEF Types
    <2>1. CASE Nothing(e) \/ Flushing(e) \/ NotReading(e)
        BY <1>0, <2>1 DEF Nothing, Flushing, NotReading, SameRead
    <2>2. CASE Sending(e)
        <3>1. sent[e] <= sent'[e] /\ sent'[e] <= Len(Message[e]) /\ taken'[e] = taken[e]
            BY <2>2 DEF Sending
        <3>2. QED
            BY <1>0, <2>0, <3>1
    <2>3. ASSUME NEW n \in Nat, Reading(e, n) \/ Writing(e, n)
          PROVE  taken'[e] <= sent'[e] /\ sent'[e] <= Len(Message[e])
        BY <1>0, <2>3 DEF Reading, Writing, SameRead
    <2>4. QED
        BY <2>1, <2>2, <2>3, EffectStep DEF Effect
<1>2. stalls'[e] <= MaxStalls[e]
    <2>1. CASE UNCHANGED stalls
        BY <1>0, <2>1
    <2>2. CASE \E d \in Directions : Stall(d)
        <3>1. PICK d \in Directions : Stall(d)
            BY <2>2
        <3>2. stalls[d] < MaxStalls[d] /\ stalls' = [stalls EXCEPT ![d] = @ + 1]
            BY <3>1 DEF Stall
        <3>3. CASE d = e
            BY <1>0, <3>2, <3>3 DEF Types
        <3>4. CASE d # e
            BY <1>0, <3>2, <3>4 DEF Types
        <3>5. QED
            BY <3>3, <3>4
    <2>3. QED
        <3>1. CASE UNCHANGED vars
            BY <2>1, <3>1 DEF vars, writerVars
        <3>2. CASE Poll \/ Result
            BY <2>1, <3>2 DEF Poll, Result, writerVars
        <3>3. CASE \E d \in Directions : Transfer(d)
            BY <2>1, <3>3 DEF Transfer, AlreadyDone, TopSkip, TopFlush, WriterPending,
                  Fill, FillPending, IdleFlush, Write, Written, WritePending, TopUp, Eof,
                  Shutdown, writerVars
        <3>4. CASE \E d \in Directions :
                 AbortBlock(d) \/ Cross(d) \/ IoError(d) \/ Arrive(d) \/ Close(d)
            BY <2>1, <3>4 DEF AbortBlock, Cross, IoError, Arrive, Close, writerVars
        <3>5. CASE \E d \in Directions : Unstall(d) \/ Abort(d)
            BY <2>1, <3>5 DEF Unstall, Abort, writerVars
        <3>6. QED
            BY <2>2, <3>1, <3>2, <3>3, <3>4, <3>5 DEF Next, Task
<1>3. QED
    BY <1>1, <1>2 DEF Bounds

\* A completed flush covers all that was written, and nothing else is claimed flushed.
LEMMA FlushesStep ==
    ASSUME Types, NEW e \in Directions, Effect(e), Counts(e), Flushes(e)
    PROVE  Flushes(e)'
<1>0. /\ amt[e] \in Nat /\ Len(out[e]) = amt[e] /\ flushes[e] \subseteq Nat
      /\ needFlush[e] \in BOOLEAN
    BY DEF Types, Counts
<1>1. CASE Nothing(e) \/ NotReading(e) \/ Sending(e)
    BY <1>1 DEF Nothing, NotReading, Sending, SameWritten, SameFlush, Flushes
<1>2. CASE Flushing(e)
    BY <1>0, <1>2 DEF Flushing, SameWritten, Flushes
<1>3. ASSUME NEW n \in Nat, Reading(e, n)
      PROVE  Flushes(e)'
    BY <1>3 DEF Reading, SameWritten, SameFlush, Flushes
<1>4. ASSUME NEW n \in Nat, Writing(e, n)
      PROVE  Flushes(e)'
    <2>1. amt'[e] = amt[e] + n /\ flushes'[e] = flushes[e] /\ needFlush'[e]
        BY <1>4 DEF Writing
    <2>2. \A k \in flushes[e] : k <= amt[e] + n
        BY <1>0 DEF Flushes
    <2>3. QED
        BY <2>1, <2>2 DEF Flushes
<1>5. QED
    BY <1>1, <1>2, <1>3, <1>4 DEF Effect

\* Once the reader returned end of file nothing more is sent or read, so a direction
\* that ended by it has no byte left to write.
LEMMA EndsStep ==
    ASSUME Types, NEW e \in Directions, Effect(e), Bounds(e), Counts(e), Ends(e), Flushes(e),
           \/ how'[e] # "eof" \/ how'[e] = how[e]
           \/ /\ pos[e] = Len(buf[e]) /\ readDone[e] /\ Flushing(e)
    PROVE  Ends(e)'
<1>0. /\ pos[e] \in Nat /\ amt[e] \in Nat /\ taken[e] \in Nat /\ sent[e] \in Nat
      /\ Len(buf[e]) \in Nat /\ taken[e] <= sent[e]
    BY DataTypes DEF Bounds
<1>1. readDone[e] => taken[e] = sent[e] /\ eof[e]
    BY DEF Ends, AtEof
<1>2. how[e] = "eof" => eof[e] /\ amt[e] = sent[e] /\ sent[e] \in flushes[e]
    BY DEF Ends
<1>3. /\ how[e] = "eof" => pos[e] = Len(buf[e]) /\ taken[e] = sent[e]
      /\ readDone[e] /\ pos[e] = Len(buf[e]) => amt[e] = sent[e]
    <2>1. pos[e] <= Len(buf[e]) /\ taken[e] + pos[e] = amt[e] + Len(buf[e])
        BY DEF Counts
    <2>2. QED
        BY <1>0, <1>1, <1>2, <2>1
<1>4. CASE (Nothing(e) \/ NotReading(e)) /\ ~Flushing(e)
    <2>1. /\ sent'[e] = sent[e] /\ taken'[e] = taken[e] /\ eof'[e] = eof[e] /\ amt'[e] = amt[e]
          /\ flushes'[e] = flushes[e]
          /\ readDone'[e] => readDone[e] \/ AtEof(e)
        BY <1>4 DEF Nothing, NotReading, SameRead, SameWritten, SameFlush
    <2>2. how'[e] = "eof" => how[e] = "eof"
        BY <1>4
    <2>3. readDone'[e] => taken[e] = sent[e] /\ eof[e]
        BY <1>1, <2>1 DEF AtEof
    <2>4. QED
        BY <1>2, <2>1, <2>2, <2>3 DEF Ends, AtEof
<1>5. CASE Flushing(e)
    <2>1. /\ sent'[e] = sent[e] /\ taken'[e] = taken[e] /\ eof'[e] = eof[e] /\ amt'[e] = amt[e]
          /\ flushes'[e] = flushes[e] \cup {Len(out[e])} /\ readDone'[e] = readDone[e]
        BY <1>5 DEF Flushing, SameRead, SameWritten
    <2>2. Len(out[e]) = amt[e]
        BY DEF Counts
    <2>3. QED
        BY <1>1, <1>2, <1>3, <2>1, <2>2 DEF Ends, AtEof
<1>6. CASE Sending(e)
    <2>1. ~eof[e] /\ readDone'[e] = readDone[e]
        BY <1>6 DEF Sending
    <2>2. ~readDone[e] /\ how[e] # "eof"
        BY <1>1, <1>2, <2>1
    <2>3. QED
        BY <2>1, <2>2 DEF Ends
<1>7. ASSUME NEW n \in Nat, Reading(e, n)
      PROVE  Ends(e)'
    <2>1. /\ n > 0 /\ taken[e] + n <= sent[e] /\ readDone'[e] = readDone[e]
          /\ taken'[e] = taken[e] + n
        BY <1>7 DEF Reading
    <2>2. taken[e] # sent[e]
        BY <1>0, <2>1
    <2>3. ~readDone[e] /\ how[e] # "eof"
        BY <1>1, <1>3, <2>2
    <2>4. QED
        BY <2>1, <2>3 DEF Ends
<1>8. ASSUME NEW n \in Nat, Writing(e, n)
      PROVE  Ends(e)'
    <2>1. /\ n > 0 /\ pos[e] + n <= Len(buf[e]) /\ readDone'[e] = readDone[e]
          /\ sent'[e] = sent[e] /\ taken'[e] = taken[e] /\ eof'[e] = eof[e]
        BY <1>8 DEF Writing, SameRead
    <2>2. pos[e] # Len(buf[e]) /\ how[e] # "eof"
        BY <1>0, <1>3, <2>1
    <2>3. QED
        BY <1>1, <2>1, <2>2 DEF Ends, AtEof
<1>9. QED
    BY <1>4, <1>5, <1>6, <1>7, <1>8 DEF Effect

-----------------------------------------------------------------------------
(* Datagrams. *)

\* A buffer of one datagram is filled when everything before it is flushed, and is
\* never added to, so a border between datagrams is a flush.
LEMMA DatagramsStep ==
    ASSUME Types, NEW e \in Directions, Effect(e), Counts(e), Bytes(e), Control(e), Flushes(e),
           Datagrams(e), api' = api
    PROVE  Datagrams(e)'
<1> SUFFICES ASSUME datagram
             PROVE  Datagrams(e)'
    BY DEF Datagrams, datagram
<1>0. datagram'
    BY DEF datagram
<1>1. CASE SameBuffer(e) /\ SameWritten(e) /\ flushes[e] \subseteq flushes'[e]
    BY <1>1 DEF SameBuffer, SameWritten, Datagrams
<1>2. CASE Nothing(e) \/ Flushing(e) \/ Sending(e) \/ NotReading(e)
    <2>1. CASE SameBuffer(e)
        BY <1>1, <1>2, <2>1 DEF Nothing, Flushing, Sending, NotReading, SameFlush
    <2>2. CASE buf'[e] = <<>> /\ SameWritten(e) /\ SameFlush(e)
        BY <2>2 DEF Datagrams, SameWritten, SameFlush
    <2>3. QED
        BY <1>2, <2>1, <2>2 DEF Nothing, Flushing, Sending, NotReading
<1>3. ASSUME NEW n \in Nat, Reading(e, n)
      PROVE  Datagrams(e)'
    <2>1. /\ sub = "fill" /\ Active(e) /\ buf'[e] = NextBytes(e, n) /\ amt'[e] = amt[e]
          /\ flushes'[e] = flushes[e]
          /\ \A k \in 1..n : Message[e][taken[e] + k] = Message[e][taken[e] + 1]
        BY <1>3 DEF Reading, Control, SameWritten, SameFlush
    <2>2. amt[e] \in flushes[e]
        BY <2>1 DEF Control, Flushes
    <2>3. \A i, j \in 1..Len(buf'[e]) : Message[e][buf'[e][i]] = Message[e][buf'[e][j]]
        <3>1. Len(buf'[e]) = n /\ \A i \in 1..n : buf'[e][i] = taken[e] + i
            BY <2>1, Readable DEF From
        <3>2. QED
            BY <2>1, <3>1
    <2>4. QED
        BY <2>1, <2>2, <2>3 DEF Datagrams
<1>4. ASSUME NEW n \in Nat, Writing(e, n)
      PROVE  Datagrams(e)'
    <2>0. amt[e] \in Nat /\ pos[e] \in Nat /\ Len(buf[e]) \in Nat /\ pos[e] <= amt[e]
        BY DataTypes DEF Counts
    <2>1. /\ n > 0 /\ pos[e] + n <= Len(buf[e]) /\ pos'[e] = pos[e] + n
          /\ amt'[e] = amt[e] + n /\ flushes'[e] = flushes[e] /\ buf'[e] = buf[e]
        BY <1>4 DEF Writing
    <2>2. ASSUME NEW i \in Nat \ {0}, i < amt[e] + n, Message[e][i] # Message[e][i + 1]
          PROVE  i \in flushes[e]
        <3>1. CASE i < amt[e]
            BY <2>2, <3>1 DEF Datagrams
        <3>2. CASE i = amt[e] /\ pos[e] = 0
            <4>1. buf[e] # <<>>
                BY <2>0, <2>1
            <4>2. QED
                BY <3>2, <4>1 DEF Datagrams
        <3>3. CASE amt[e] <= i /\ ~(i = amt[e] /\ pos[e] = 0)
            <4> DEFINE k == amt[e] - pos[e]
            <4>1. k \in Nat /\ i - k \in 1..Len(buf[e]) /\ (i - k) + 1 \in 1..Len(buf[e])
                  /\ k + (i - k) = i /\ k + ((i - k) + 1) = i + 1
                <5> DEFINE a == amt[e]  p == pos[e]  l == Len(buf[e])
                <5>1. /\ a \in Nat /\ p \in Nat /\ l \in Nat /\ p <= a /\ p + n <= l
                      /\ a <= i /\ i < a + n /\ ~(i = a /\ p = 0)
                    BY <2>0, <2>1, <2>2, <3>3
                <5> HIDE DEF a, p, l
                <5>2. /\ a - p \in Nat /\ i - (a - p) \in 1..l /\ (i - (a - p)) + 1 \in 1..l
                      /\ (a - p) + (i - (a - p)) = i /\ (a - p) + ((i - (a - p)) + 1) = i + 1
                    BY <5>1, BorderInside
                <5>3. QED
                    BY <5>2 DEF a, p, l
            <4>2. From(buf[e], k)
                BY DEF Bytes
            <4> HIDE DEF k
            <4>3. buf[e][i - k] = i /\ buf[e][(i - k) + 1] = i + 1
                BY <4>1, <4>2 DEF From
            <4>4. Message[e][buf[e][i - k]] = Message[e][buf[e][(i - k) + 1]]
                BY <4>1 DEF Datagrams
            <4>5. QED
                BY <2>2, <4>3, <4>4
        <3>4. QED
            BY <2>0, <2>2, <3>1, <3>2, <3>3
    <2>3. pos'[e] # 0
        BY <2>0, <2>1
    <2>4. QED
        BY <2>1, <2>2, <2>3 DEF Datagrams
<1>5. QED
    BY <1>2, <1>3, <1>4 DEF Effect

-----------------------------------------------------------------------------
(* Control. *)

\* A transfer whose direction is left starts the next one at its first call.
LEMMA ProceedControl ==
    ASSUME Types, NEW d \in Directions, Active(d), NEW r, Proceed(d, r), NEW e \in Directions
    PROVE  Control(e)' /\ Between'
<1>1. sub' \in {"none", "top", "shut", "ready"}
    BY StageFacts DEF Proceed, Types
<1>2. sub' # "none" => Active("ba")'
    BY FollowingIs DEF Proceed, Active
<1>3. QED
    BY <1>1, <1>2 DEF Control, Between, Directions

\* The calls of a transfer that stay in it leave the next call what it relies on.
LEMMA ControlTransfer ==
    ASSUME Types, NEW d \in Directions, NEW e \in Directions, Transfer(d), Control(e)
    PROVE  Control(e)' /\ Between'
<1>0. Active(d) /\ (stage' = stage => Active(d)') /\ (e # d /\ stage' = stage => ~Active(e)')
      /\ api' = api
    <2>1. Active(d) /\ api' = api
        BY DEF Transfer, AlreadyDone, TopSkip, TopFlush, WriterPending, Fill, FillPending,
               IdleFlush, Write, Written, WritePending, TopUp, Eof, Shutdown
    <2>2. QED
        BY <2>1 DEF Active, Directions
<1>1. CASE \E r : Proceed(d, r)
    BY <1>0, <1>1, ProceedControl
<1>2. CASE stage' = stage
    <2>0. Between'
        BY <1>0, <1>2 DEF Between
    <2>1. CASE TopSkip(d)
        BY <2>0, <1>0, <2>1 DEF TopSkip, TopFlushes, AfterTop, Control, Active, bufVars, datagram
    <2>2. CASE TopFlush(d)
        BY <2>0, <1>0, <2>2 DEF TopFlush, AfterTop, Control, Active, datagram, Types
    <2>3. CASE Fill(d) \/ Write(d) \/ Eof(d) \/ (FillPending(d) /\ sub' = "idle flush")
        <3>1. sub' \in {"write", "shut", "idle flush"}
            BY <2>3 DEF Fill, Write, Eof
        <3>2. QED
            BY <2>0, <3>1 DEF Control
    <2>4. CASE Written(d)
        BY <2>0, <1>0, <2>4 DEF Written, Control, Active, bufVars
    <2>5. CASE WritePending(d) /\ TopsUp(d) /\ sub' = "top up"
        BY <2>0, <1>0, <2>5 DEF TopsUp, Control, datagram
    <2>6. QED
        BY <1>1, <2>1, <2>2, <2>3, <2>4, <2>5
           DEF Transfer, AlreadyDone, WriterPending, IdleFlush, FillPending, WritePending, TopUp,
               Shutdown
<1>3. QED
    BY <1>1, <1>2 DEF Transfer, AlreadyDone, TopSkip, TopFlush, WriterPending, Fill, FillPending,
               IdleFlush, Write, Written, WritePending, TopUp, Eof, Shutdown

\* The blocks around the transfers start none in the middle, and nobody else touches
\* the buffer.
LEMMA ControlAround ==
    ASSUME Types, Between, NEW d \in Directions, NEW e \in Directions, Control(e),
           Nothing(e) \/ Sending(e),
           \/ Poll \/ Result \/ AbortBlock(d) \/ Cross(d) \/ IoError(d)
           \/ Arrive(d) \/ Close(d) \/ Stall(d) \/ Unstall(d) \/ Abort(d)
    PROVE  Control(e)' /\ Between'
<1>1. CASE Poll
    <2>1. sub' \in {"top", "shut", "ready"} /\ stage' = "ab"
        BY <1>1, StageFacts DEF Poll, Directions, Types
    <2>2. QED
        BY <2>1 DEF Control, Between, Active, Directions
<1>2. CASE Result \/ AbortBlock(d) \/ IoError(d)
    <2>1. sub' = "none"
        BY <1>2 DEF Result, AbortBlock, IoError, AbortStage, Between, Active, Directions
    <2>2. QED
        BY <2>1 DEF Control, Between
<1>3. CASE Cross(d)
    <2>1. sub' = "none" \/ (sub' = "shut" /\ stage' = stage /\ stage = CrossStage(d))
        BY <1>3 DEF Cross
    <2>2. QED
        BY <2>1 DEF Control, Between, Active, CrossStage, Directions
<1>4. CASE Arrive(d) \/ Close(d) \/ Stall(d) \/ Unstall(d) \/ Abort(d)
    <2>1. sub' = sub /\ stage' = stage /\ api' = api
        BY <1>4 DEF Arrive, Close, Stall, Unstall, Abort
    <2>2. /\ pos'[e] = pos[e] /\ buf'[e] = buf[e] /\ needFlush'[e] = needFlush[e]
          /\ readDone'[e] = readDone[e]
        BY DEF Nothing, Sending, SameBuffer, SameRead, SameFlush
    <2>3. QED
        BY <2>1, <2>2 DEF Control, Between, Active, datagram
<1>5. QED
    BY <1>1, <1>2, <1>3, <1>4

\* Every step keeps the states of the two transfers and of their buffers consistent.
LEMMA ControlStep ==
    ASSUME Types, \A f \in Directions : Bounds(f), Between, [Next]_vars,
           NEW e \in Directions, Control(e)
    PROVE  Control(e)' /\ Between'
<1>1. CASE UNCHANGED vars
    BY <1>1 DEF Control, Between, Active, datagram, vars, bufVars
<1>2. CASE Poll \/ Result
    BY <1>2, ControlAround, EffectAround
<1>3. CASE \E d \in Directions : Transfer(d)
    BY <1>3, ControlTransfer
<1>4. CASE \E d \in Directions :
             \/ AbortBlock(d) \/ Cross(d) \/ IoError(d)
             \/ Arrive(d) \/ Close(d) \/ Stall(d) \/ Unstall(d) \/ Abort(d)
    BY <1>4, ControlAround, EffectAround
<1>5. QED
    BY <1>1, <1>2, <1>3, <1>4 DEF Next, Task

\* A direction ends by end of file only in Eof, which flushed an empty buffer after
\* the reader's end.
LEMMA HowStep ==
    ASSUME Types, [Next]_vars, NEW e \in Directions, Control(e)
    PROVE  /\ api' = api
           /\ \/ how'[e] # "eof" \/ how'[e] = how[e]
              \/ pos[e] = Len(buf[e]) /\ readDone[e] /\ Flushing(e)
<1>1. CASE UNCHANGED <<api, how>>
    BY <1>1
<1>2. CASE \E d \in Directions : AbortBlock(d) \/ Cross(d)
    BY <1>2 DEF AbortBlock, Cross, Types
<1>3. CASE \E d \in Directions : Eof(d)
    <2>1. PICK d \in Directions : Eof(d)
        BY <1>3
    <2>2. CASE d = e
        <3>1. pos[e] = Len(buf[e]) /\ readDone[e] /\ api' = api
            BY <2>1, <2>2 DEF Eof, Control
        <3>2. Flushing(e)
            BY <2>1, <2>2 DEF Eof, Flushed, Flushing, SameBuffer, SameRead, SameWritten,
                              peerVars, bufVars, Types
        <3>3. QED
            BY <3>1, <3>2
    <2>3. CASE d # e
        BY <2>1, <2>3 DEF Eof, Types
    <2>4. QED
        BY <2>2, <2>3
<1>4. QED
    <2>1. CASE UNCHANGED vars
        BY <1>1, <2>1 DEF vars
    <2>2. CASE Poll \/ Result
        BY <1>1, <2>2 DEF Poll, Result
    <2>3. CASE \E d \in Directions : Transfer(d)
        BY <1>1, <1>3, <2>3 DEF Transfer, AlreadyDone, TopSkip, TopFlush, WriterPending,
              Fill, FillPending, IdleFlush, Write, Written, WritePending, TopUp, Shutdown
    <2>4. CASE \E d \in Directions :
             IoError(d) \/ Arrive(d) \/ Close(d) \/ Stall(d) \/ Unstall(d) \/ Abort(d)
        BY <1>1, <2>4 DEF IoError, Arrive, Close, Stall, Unstall, Abort
    <2>5. QED
        BY <1>2, <2>1, <2>2, <2>3, <2>4 DEF Next, Task

-----------------------------------------------------------------------------
(* The inductive invariant and what follows from it. *)

\* The invariant holds before the first poll,
LEMMA IInvInit == Init => IInv
<1> SUFFICES ASSUME Init
             PROVE  IInv
    OBVIOUS
<1>1. Types /\ Between
    BY EmptySeqType DEF Init, Types, Between, Stages, Subs
<1>2. ASSUME NEW d \in Directions
      PROVE  /\ Bounds(d) /\ Counts(d) /\ Bytes(d) /\ Control(d)
             /\ Ends(d) /\ Flushes(d) /\ Datagrams(d)
    <2>1. /\ sent[d] = 0 /\ taken[d] = 0 /\ stalls[d] = 0 /\ pos[d] = 0 /\ amt[d] = 0
          /\ out[d] = <<>> /\ buf[d] = <<>> /\ flushes[d] = {0} /\ how[d] = "none"
          /\ ~readDone[d] /\ ~needFlush[d] /\ stage = "parked"
        BY DEF Init
    <2>2. Len(Message[d]) \in Nat /\ MaxStalls[d] \in Nat /\ BufSize \in Nat
        BY DuplexAssumption
    <2>3. QED
        BY <2>1, <2>2 DEF Bounds, Counts, Bytes, From, Control, Ends, Flushes, Datagrams, Active
<1>3. QED
    BY <1>1, <1>2 DEF IInv

\* every step of copy_duplex, the two ends and the abort handles keeps it,
LEMMA IInvStep == IInv /\ [Next]_vars => IInv'
<1> SUFFICES ASSUME IInv, [Next]_vars
             PROVE  IInv'
    OBVIOUS
<1>1. Types /\ Types' /\ Between
    BY TypesStep DEF IInv
<1>2. \A f \in Directions : Bounds(f)
    BY DEF IInv
<1>3. ASSUME NEW e \in Directions
      PROVE  /\ Bounds(e)' /\ Counts(e)' /\ Bytes(e)' /\ Control(e)'
             /\ Ends(e)' /\ Flushes(e)' /\ Datagrams(e)' /\ Between'
    <2>1. /\ Bounds(e) /\ Counts(e) /\ Bytes(e) /\ Control(e)
          /\ Ends(e) /\ Flushes(e) /\ Datagrams(e)
        BY DEF IInv
    <2>2. Effect(e)
        BY <1>1, <1>2, EffectStep
    <2>3. Bounds(e)'
        BY <1>1, <1>2, BoundsStep
    <2>4. Counts(e)' /\ Bytes(e)'
        BY <1>1, <2>1, <2>2, BytesStep
    <2>5. Control(e)' /\ Between'
        BY <1>1, <1>2, <2>1, ControlStep
    <2>6. Flushes(e)'
        BY <1>1, <2>1, <2>2, FlushesStep
    <2>7. api' = api
        BY <1>1, <2>1, HowStep
    <2>8. Ends(e)'
        BY <1>1, <2>1, <2>2, HowStep, EndsStep
    <2>9. Datagrams(e)'
        BY <1>1, <2>1, <2>2, <2>7, DatagramsStep
    <2>10. QED
        BY <2>3, <2>4, <2>5, <2>6, <2>8, <2>9
<1>4. QED
    BY <1>1, <1>3 DEF IInv, Directions

\* so it is an invariant of the specification.
LEMMA DuplexInductive == Spec => []IInv
BY IInvInit, IInvStep, PTL DEF Spec

\* The shape of the state, with the counters of copy_duplex within their bounds.
LEMMA IInvTypeOK == IInv => DuplexTypeOK
<1> SUFFICES ASSUME IInv
             PROVE  DuplexTypeOK
    OBVIOUS
<1>1. Types
    BY DEF IInv
<1>2. stage \in Range(Order) \cup {"parked", "done", "failed"}
    <2>1. DOMAIN Order = 1..7
        BY DEF Order
    <2>2. /\ Order[1] = "ab" /\ Order[2] = "ba" /\ Order[3] = "abort ab" /\ Order[4] = "abort ba"
          /\ Order[5] = "cross ab" /\ Order[6] = "cross ba" /\ Order[7] = "result"
        BY DEF Order
    <2>3. \A s \in {"ab", "ba", "abort ab", "abort ba", "cross ab", "cross ba", "result"} :
             s \in Range(Order)
        <3>1. \A i \in 1..7 : Order[i] \in Range(Order)
            BY <2>1, Zenon DEF Range
        <3>2. 1 \in 1..7 /\ 2 \in 1..7 /\ 3 \in 1..7 /\ 4 \in 1..7 /\ 5 \in 1..7
              /\ 6 \in 1..7 /\ 7 \in 1..7
            OBVIOUS
        <3>3. Order[1] \in Range(Order) /\ Order[2] \in Range(Order) /\ Order[3] \in Range(Order)
              /\ Order[4] \in Range(Order) /\ Order[5] \in Range(Order)
              /\ Order[6] \in Range(Order) /\ Order[7] \in Range(Order)
            BY <3>1, <3>2, Zenon
        <3>4. QED
            BY <2>2, <3>3
    <2>4. QED
        BY <1>1, <2>3 DEF Types, Stages
<1>3. ASSUME NEW d \in Directions
      PROVE  /\ sent[d] \in 0..Len(Message[d]) /\ taken[d] \in 0..sent[d]
             /\ stalls[d] \in 0..MaxStalls[d]
             /\ Len(buf[d]) <= BufSize /\ pos[d] \in 0..Len(buf[d])
             /\ flushes[d] \subseteq 0..Len(out[d])
    <2>1. /\ taken[d] <= sent[d] /\ sent[d] <= Len(Message[d]) /\ stalls[d] <= MaxStalls[d]
          /\ pos[d] <= Len(buf[d]) /\ Len(buf[d]) <= BufSize /\ Len(out[d]) = amt[d]
          /\ \A k \in flushes[d] : k <= amt[d]
        BY DEF IInv, Bounds, Counts, Flushes
    <2>2. /\ sent[d] \in Nat /\ taken[d] \in Nat /\ stalls[d] \in Nat /\ pos[d] \in Nat
          /\ amt[d] \in Nat /\ flushes[d] \subseteq Nat
        BY <1>1 DEF Types
    <2>3. Len(Message[d]) \in Nat /\ MaxStalls[d] \in Nat /\ Len(buf[d]) \in Nat
        BY <1>1, DuplexAssumption DEF Types
    <2>4. QED
        BY <2>1, <2>2, <2>3
<1>4. QED
    BY <1>1, <1>2, <1>3 DEF DuplexTypeOK, Types

\* What a writer got is, byte for byte, a prefix of what the peer sent, whatever the
\* reads, partial writes, top-ups behind a stalled writer, aborts and errors of the
\* copy loop; the count returned to the caller is its length.
THEOREM WritersGetAPrefix == Spec => []OutIsPrefix
<1>1. IInv => OutIsPrefix
    <2> SUFFICES ASSUME IInv
                 PROVE  OutIsPrefix
        OBVIOUS
    <2>1. ASSUME NEW d \in Directions
          PROVE  out[d] = [i \in 1..amt[d] |-> i] /\ amt[d] <= sent[d]
        <3>1. Types /\ Counts(d) /\ Bytes(d) /\ Bounds(d)
            BY DEF IInv
        <3>2. out[d] \in Seq(Nat) /\ amt[d] \in Nat /\ Len(out[d]) = amt[d] /\ From(out[d], 0)
            BY <3>1, DataTypes DEF Counts, Bytes
        <3>3. out[d] = [i \in 1..amt[d] |-> i]
            BY <3>2, Counting
        <3>4. amt[d] <= sent[d]
            <4>1. /\ pos[d] \in Nat /\ Len(buf[d]) \in Nat /\ taken[d] \in Nat /\ sent[d] \in Nat
                  /\ pos[d] <= Len(buf[d]) /\ taken[d] + pos[d] = amt[d] + Len(buf[d])
                  /\ taken[d] <= sent[d]
                BY <3>1, DataTypes DEF Counts, Bounds
            <4>2. QED
                BY <3>2, <4>1
        <3>5. QED
            BY <3>3, <3>4
    <2>2. QED
        BY <2>1, IInvTypeOK DEF OutIsPrefix
<1>2. QED
    BY <1>1, DuplexInductive, PTL

\* In datagram mode the copy loop flushes between any two messages, whatever the size
\* of the buffer and wherever the writer stalls: no frame mixes two datagrams.
THEOREM DatagramBordersAreFlushed == Spec => []DatagramsKeptApart
<1>1. IInv => DatagramsKeptApart
    <2> SUFFICES ASSUME IInv, datagram, NEW d \in Directions, NEW i \in 1 .. Len(out[d]) - 1,
                        Message[d][out[d][i]] # Message[d][out[d][i + 1]]
                 PROVE  i \in flushes[d]
        BY DEF DatagramsKeptApart
    <2>1. Types /\ Counts(d) /\ Bytes(d) /\ Datagrams(d)
        BY DEF IInv
    <2>2. amt[d] \in Nat /\ Len(out[d]) = amt[d]
        BY <2>1, DataTypes DEF Counts
    <2>3. i \in Nat \ {0} /\ i < amt[d] /\ i \in 1..Len(out[d]) /\ i + 1 \in 1..Len(out[d])
        BY <2>2
    <2>4. out[d][i] = i /\ out[d][i + 1] = i + 1
        BY <2>1, <2>3 DEF Bytes, From
    <2>5. QED
        BY <2>1, <2>3, <2>4 DEF Datagrams
<1>2. QED
    BY <1>1, DuplexInductive, PTL

\* A direction that reached its reader's end of file and was not cut short by an abort
\* or by the other direction passed on and flushed every byte it was sent.
THEOREM EndOfFileIsComplete == Spec => []EofLosesNothing
<1>1. IInv => EofLosesNothing
    BY DEF IInv, Ends, EofLosesNothing
<1>2. QED
    BY <1>1, DuplexInductive, PTL
=============================================================================
