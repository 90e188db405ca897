--------------------------- MODULE UdpStreamProofs ---------------------------
(***************************************************************************)
(* Proofs about UdpStream, for any number of peers, sockets, addresses and *)
(* writes and any queue size.  The inductive invariant follows a datagram  *)
(* from its socket to the reader and a buffer from the writer to send_to,  *)
(* and says at each station what must already be true of it.               *)
(***************************************************************************)
EXTENDS UdpStream, SequenceTheorems, TLAPS

\* A datagram that passed the claim: an error for the reader, or data of the counterparty
\* unless foreign data are accepted.
Mine(x) == x.what = "error" \/ (x.from \in Peers /\ (mode # "Accept" => x.from = counterparty))

\* Who the datagrams at each station are from.
Senders ==
    /\ \A s \in Attempts : \A x \in Elements(kernel[s]) : x.from \in Peers /\ x.what \in {"data", "empty"}
    /\ \A s \in Attempts : rxAt[s] = "claim" => rxItem[s].from \in Peers /\ rxItem[s].what = "data"
    /\ \A s \in Attempts : rxAt[s] = "dispatch" => Mine(rxItem[s])
    /\ \A x \in Elements(ingress) : Mine(x)
    /\ \A x \in Elements(read) : x.what # "error" /\ Mine(x)

Receivers == \A x \in Elements(sent) : x.to = counterparty /\ counterparty # NoPeer

\* Two datagrams of one peer through one socket, the first sent first.
Earlier(x, y) == x.from = y.from /\ x.from # NoPeer /\ x.via = y.via => x.n < y.n
Before(A, B) == \A x \in A, y \in B : Earlier(x, y)
Ascending(q) == \A i, j \in DOMAIN q : i < j => Earlier(q[i], q[j])

\* The datagrams at the stations are in order, each station behind the next.
OrderAt(s) ==
    /\ Ascending(kernel[s])
    /\ rxItem[s].from # NoPeer => rxItem[s].via = s
    /\ \A x \in Elements(kernel[s]) : x.via = s
    /\ Before(Elements(read) \cup Elements(ingress), Elements(kernel[s]) \cup {rxItem[s]})
    /\ Before({rxItem[s]}, Elements(kernel[s]))
Order ==
    /\ Ascending(read) /\ Ascending(ingress) /\ Before(Elements(read), Elements(ingress))
    /\ \A s \in Attempts : OrderAt(s)

\* No datagram is numbered above the last that arrived.
Numbered(x) == x.from # NoPeer => x.n <= arrived[x.from]
Numbers ==
    /\ \A x \in Elements(read) \cup Elements(ingress) : Numbered(x)
    /\ \A s \in Attempts : \A x \in Elements(kernel[s]) \cup {rxItem[s]} : Numbered(x)

\* The buffers the owner wrote, in the order it came up with them.
Rising(q) == \A i, j \in DOMAIN q : i < j => q[i] < q[j]
Writes ==
    /\ Rising(reported) /\ \A x \in Elements(reported) : x # 0 /\ x <= offered /\ (flushing # 0 => x < flushing)
    /\ \A x \in Elements(accepted) : x # 0 /\ x <= offered /\ (waiting # 0 => x < waiting)
    /\ flushing # 0 /\ waiting = 0 /\ phase # "dropped" => flushing \in Elements(accepted) \cup refused
    /\ Elements(reported) \subseteq Elements(accepted) \cup refused
    /\ Elements(accepted) \subseteq Elements(reported) \cup {flushing}

\* The sending tasks share out the queue from its front.
SentInOrder ==
    \A i, j \in DOMAIN sent : i < j => /\ sent[i].data # sent[j].data
                                       /\ sent[i].by = sent[j].by => sent[i].data < sent[j].data
SentBefore == \A x \in Elements(sent) : /\ x.data \in Elements(accepted)
                                        /\ \A y \in Elements(egress) : x.data < y
Holds(s) ==
    txAt[s] = "send" =>
        /\ txItem[s] \in Elements(accepted)
        /\ \A y \in Elements(egress) : txItem[s] < y
        /\ \A x \in Elements(sent) : x.data # txItem[s] /\ (x.by = s => x.data < txItem[s])
        /\ \A t \in Attempts : txAt[t] = "send" /\ txItem[t] = txItem[s] => t = s
Sends ==
    /\ Rising(egress) /\ Elements(egress) \subseteq Elements(accepted)
    /\ SentInOrder /\ SentBefore
    /\ \A s \in Attempts : Holds(s)

IInv == UdpTypeOK /\ Senders /\ Receivers /\ Order /\ Numbers /\ Writes /\ Sends
-----------------------------------------------------------------------------
(* Facts about queues. *)

\* What a queue holds after something was appended.
LEMMA ElementsAppend ==
    ASSUME NEW S, NEW q \in Seq(S), NEW x \in S
    PROVE  /\ Append(q, x) \in Seq(S) /\ Len(Append(q, x)) = Len(q) + 1
           /\ Elements(Append(q, x)) = Elements(q) \cup {x}
<1> DEFINE r == Append(q, x)
<1>1. /\ r \in Seq(S) /\ Len(r) = Len(q) + 1 /\ DOMAIN q = 1..Len(q) /\ DOMAIN r = 1 .. Len(q) + 1
      /\ \A i \in 1..Len(q) : r[i] = q[i]
      /\ r[Len(q) + 1] = x
    OBVIOUS
<1> HIDE DEF r
<1>2. Elements(r) \subseteq Elements(q) \cup {x}
    BY <1>1 DEF Elements
<1>3. Elements(q) \cup {x} \subseteq Elements(r)
    <2>1. \A i \in 1..Len(q) : i \in 1 .. Len(q) + 1
        OBVIOUS
    <2>2. Len(q) + 1 \in 1 .. Len(q) + 1
        OBVIOUS
    <2>3. QED
        BY <1>1, <2>1, <2>2 DEF Elements
<1>4. QED
    BY <1>1, <1>2, <1>3 DEF r

\* What it holds after its front was taken.
LEMMA ElementsTail ==
    ASSUME NEW S, NEW q \in Seq(S), q # <<>>
    PROVE  /\ Head(q) \in S /\ Tail(q) \in Seq(S) /\ Len(Tail(q)) = Len(q) - 1 /\ Len(q) > 0
           /\ Head(q) \in Elements(q) /\ Elements(Tail(q)) \subseteq Elements(q)
           /\ Elements(q) \subseteq S
<1>1. /\ Head(q) \in S /\ Tail(q) \in Seq(S) /\ Len(Tail(q)) = Len(q) - 1 /\ Len(q) > 0
      /\ Head(q) = q[1] /\ DOMAIN q = 1..Len(q) /\ DOMAIN Tail(q) = 1 .. Len(q) - 1
      /\ \A i \in 1 .. Len(q) - 1 : Tail(q)[i] = q[i + 1]
    OBVIOUS
<1>2. 1 \in 1..Len(q) /\ \A i \in 1 .. Len(q) - 1 : i + 1 \in 1..Len(q)
    BY <1>1
<1>3. QED
    BY <1>1, <1>2 DEF Elements

\* An empty queue holds nothing.
LEMMA ElementsEmpty == Elements(<<>>) = {}
BY DEF Elements

\* Datagrams stay in order when a later one is appended or the first one is taken.
LEMMA AscendingAppend ==
    ASSUME NEW q \in Seq(Datagram), NEW x \in Datagram, Ascending(q), Before(Elements(q), {x})
    PROVE  Ascending(Append(q, x))
<1> DEFINE r == Append(q, x)
<1>1. /\ DOMAIN q = 1..Len(q) /\ DOMAIN r = 1 .. Len(q) + 1 /\ Len(q) \in Nat
      /\ \A i \in 1..Len(q) : r[i] = q[i]
      /\ r[Len(q) + 1] = x
    OBVIOUS
<1> HIDE DEF r
<1>2. ASSUME NEW i \in DOMAIN r, NEW j \in DOMAIN r, i < j
      PROVE  Earlier(r[i], r[j])
    <2>1. i \in 1..Len(q) /\ r[i] = q[i] /\ i \in DOMAIN q
        BY <1>1, <1>2
    <2>2. CASE j \in 1..Len(q)
        BY <1>1, <1>2, <2>1, <2>2 DEF Ascending
    <2>3. CASE j = Len(q) + 1
        <3>1. q[i] \in Elements(q)
            BY <2>1 DEF Elements
        <3>2. QED
            BY <1>1, <2>1, <2>3, <3>1 DEF Before
    <2>4. QED
        BY <1>1, <2>2, <2>3
<1>3. QED
    BY <1>2 DEF Ascending, r

\* Taking the head of such a queue leaves one, all of it behind the head.
LEMMA AscendingTail ==
    ASSUME NEW q \in Seq(Datagram), q # <<>>, Ascending(q)
    PROVE  Ascending(Tail(q)) /\ Before({Head(q)}, Elements(Tail(q)))
<1>1. /\ Head(q) = q[1] /\ DOMAIN q = 1..Len(q) /\ DOMAIN Tail(q) = 1 .. Len(q) - 1
      /\ \A i \in 1 .. Len(q) - 1 : Tail(q)[i] = q[i + 1]
      /\ Len(q) \in Nat /\ Len(q) > 0
    OBVIOUS
<1>2. ASSUME NEW i \in DOMAIN Tail(q)
      PROVE  /\ i + 1 \in DOMAIN q /\ 1 \in DOMAIN q /\ 1 < i + 1 /\ Tail(q)[i] = q[i + 1]
             /\ i \in Nat
    BY <1>1
<1>3. ASSUME NEW i \in DOMAIN Tail(q), NEW j \in DOMAIN Tail(q), i < j
      PROVE  Earlier(Tail(q)[i], Tail(q)[j])
    <2>1. i + 1 < j + 1
        BY <1>2, <1>3
    <2>2. QED
        BY <1>2, <2>1 DEF Ascending
<1>4. ASSUME NEW i \in DOMAIN Tail(q)
      PROVE  Earlier(Head(q), Tail(q)[i])
    BY <1>1, <1>2 DEF Ascending
<1>5. QED
    BY <1>3, <1>4 DEF Ascending, Before, Elements

\* The same for the numbers of the buffers.
LEMMA RisingAppend ==
    ASSUME NEW q \in Seq(Nat), NEW x \in Nat, Rising(q), \A y \in Elements(q) : y < x
    PROVE  Rising(Append(q, x))
<1> DEFINE r == Append(q, x)
<1>1. /\ DOMAIN q = 1..Len(q) /\ DOMAIN r = 1 .. Len(q) + 1 /\ Len(q) \in Nat
      /\ \A i \in 1..Len(q) : r[i] = q[i]
      /\ r[Len(q) + 1] = x
    OBVIOUS
<1> HIDE DEF r
<1>2. ASSUME NEW i \in DOMAIN r, NEW j \in DOMAIN r, i < j
      PROVE  r[i] < r[j]
    <2>1. i \in 1..Len(q) /\ r[i] = q[i] /\ i \in DOMAIN q
        BY <1>1, <1>2
    <2>2. CASE j \in 1..Len(q)
        BY <1>1, <1>2, <2>1, <2>2 DEF Rising
    <2>3. CASE j = Len(q) + 1
        <3>1. q[i] \in Elements(q)
            BY <2>1 DEF Elements
        <3>2. QED
            BY <1>1, <2>1, <2>3, <3>1
    <2>4. QED
        BY <1>1, <2>2, <2>3
<1>3. QED
    BY <1>2 DEF Rising, r

\* Taking the head of a rising queue leaves a rising one above the head.
LEMMA RisingTail ==
    ASSUME NEW q \in Seq(Nat), q # <<>>, Rising(q)
    PROVE  Rising(Tail(q)) /\ \A y \in Elements(Tail(q)) : Head(q) < y
<1>1. /\ Head(q) = q[1] /\ DOMAIN q = 1..Len(q) /\ DOMAIN Tail(q) = 1 .. Len(q) - 1
      /\ \A i \in 1 .. Len(q) - 1 : Tail(q)[i] = q[i + 1]
      /\ Len(q) \in Nat /\ Len(q) > 0
    OBVIOUS
<1>2. ASSUME NEW i \in DOMAIN Tail(q)
      PROVE  /\ i + 1 \in DOMAIN q /\ 1 \in DOMAIN q /\ 1 < i + 1 /\ Tail(q)[i] = q[i + 1]
             /\ i \in Nat
    BY <1>1
<1>3. ASSUME NEW i \in DOMAIN Tail(q), NEW j \in DOMAIN Tail(q), i < j
      PROVE  Tail(q)[i] < Tail(q)[j]
    <2>1. i + 1 < j + 1
        BY <1>2, <1>3
    <2>2. QED
        BY <1>2, <2>1 DEF Rising
<1>4. ASSUME NEW i \in DOMAIN Tail(q)
      PROVE  Head(q) < Tail(q)[i]
    BY <1>1, <1>2 DEF Rising
<1>5. QED
    BY <1>3, <1>4 DEF Rising, Elements
-----------------------------------------------------------------------------
(* Types. *)

\* The bounds are numbers.
LEMMA ConstFacts ==
    /\ MaxSends \in Nat /\ MaxWrites \in Nat /\ QueueSize \in Nat \ {0}
    /\ NumAddrs \in Nat \ {0} /\ Cpus \in Nat \ {0}
BY UdpAssumption

\* The number of sockets is positive and the attempts are numbers.
LEMMA SocketFacts ==
    /\ NumRx \in Nat \ {0} /\ NumTx \in Nat \ {0} /\ NumSocks \in Nat \ {0}
    /\ Attempts \subseteq Nat
<1>1. /\ RxParallelism \in Nat /\ TxParallelism \in Nat /\ Cpus \in Nat \ {0}
      /\ NumAddrs \in Nat \ {0}
    BY UdpAssumption
<1>2. NumRx \in Nat \ {0} /\ NumTx \in Nat \ {0}
    BY <1>1 DEF NumRx, NumTx, SplitEvenly, AtLeast, AtMost
<1>3. NumSocks \in Nat \ {0}
    BY <1>2 DEF NumSocks, AtLeast
<1>4. QED
    BY <1>2, <1>3 DEF Attempts

\* What a receiving task holds between two datagrams, and the item of a failed socket.
LEMMA NothingType ==
    ASSUME NEW s \in Attempts
    PROVE  /\ Nothing \in Datagram /\ [Nothing EXCEPT !.via = s, !.what = "error"] \in Datagram
           /\ Nothing.from = NoPeer
           /\ [Nothing EXCEPT !.via = s, !.what = "error"].from = NoPeer
           /\ [Nothing EXCEPT !.via = s, !.what = "error"].what = "error"
<1>1. 0 \in Attempts
    <2>1. /\ NumSocks \in Nat \ {0} /\ NumAddrs \in Nat \ {0} /\ s \in Nat
        BY SocketFacts, UdpAssumption
    <2>2. s <= NumAddrs * NumSocks - 1
        BY DEF Attempts
    <2>3. NumAddrs * NumSocks \in Nat
        BY <2>1
    <2>4. QED
        BY <2>1, <2>2, <2>3 DEF Attempts
<1>2. QED
    BY <1>1 DEF Nothing, Datagram

\* What reaches a socket, whichever the kernel chooses.
LEMMA ArriveEffect ==
    ASSUME UdpTypeOK, NEW p \in Peers, Arrive(p)
    PROVE  /\ arrived' = [arrived EXCEPT ![p] = @ + 1] /\ arrived[p] < MaxSends
           /\ \E what \in {"data", "empty"} : \A s \in Attempts :
                LET x == [from |-> p, n |-> arrived[p] + 1, via |-> s, what |-> what]
                IN  /\ x \in Datagram
                    /\ kernel'[s] = kernel[s] \/ kernel'[s] = Append(kernel[s], x)
           /\ DOMAIN kernel' = Attempts
<1>1. /\ kernel \in [Attempts -> Seq(Datagram)] /\ arrived[p] \in Nat /\ arrived'[p] = arrived[p] + 1
    BY UdpAssumption DEF UdpTypeOK, Arrive
<1>2. PICK what \in {"data", "empty"} :
         kernel' = [kernel EXCEPT ![Socket(p)] =
                      Append(@, [from |-> p, n |-> arrived'[p], via |-> Socket(p), what |-> what])]
    BY DEF Arrive
<1>3. ASSUME NEW s \in Attempts
      PROVE  LET x == [from |-> p, n |-> arrived[p] + 1, via |-> s, what |-> what]
             IN  /\ x \in Datagram
                 /\ kernel'[s] = kernel[s] \/ kernel'[s] = Append(kernel[s], x)
    BY <1>1, <1>2 DEF Datagram
<1>4. QED
    BY <1>1, <1>2, <1>3 DEF Arrive

\* A datagram that reaches a socket keeps the types,
LEMMA TypesArrive ==
    ASSUME UdpTypeOK, NEW p \in Peers, Arrive(p)
    PROVE  UdpTypeOK'
<1>1. arrived' \in [Peers -> 0 .. MaxSends]
    <2>1. /\ arrived \in [Peers -> 0 .. MaxSends] /\ arrived[p] < MaxSends
          /\ arrived' = [arrived EXCEPT ![p] = @ + 1]
        BY ArriveEffect DEF UdpTypeOK
    <2>2. arrived[p] + 1 \in 0 .. MaxSends
        BY <2>1, ConstFacts
    <2>3. QED
        BY <2>1, <2>2
<1>2. kernel' \in [Attempts -> Seq(Datagram)]
    <2>1. ASSUME NEW s \in Attempts
          PROVE  kernel'[s] \in Seq(Datagram)
        <3>1. kernel[s] \in Seq(Datagram)
            BY DEF UdpTypeOK
        <3>2. PICK x \in Datagram : kernel'[s] = kernel[s] \/ kernel'[s] = Append(kernel[s], x)
            BY ArriveEffect, Zenon
        <3>3. QED
            BY <3>1, <3>2
    <2>2. kernel' = [s \in Attempts |-> kernel'[s]]
        BY ArriveEffect DEF Arrive, UdpTypeOK
    <2>3. QED
        BY <2>1, <2>2
<1>3. QED
    BY <1>1, <1>2 DEF Arrive, UdpTypeOK, buildVars, rxVars, txVars, readVars, writeVars, bufferVars

\* the builder's steps keep them,
LEMMA TypesBuild ==
    ASSUME UdpTypeOK, Build
    PROVE  UdpTypeOK'
<1>1. CASE Bind
    <2>1. attempts' \in Nat /\ addressed' \in BOOLEAN
        BY <1>1, SocketFacts DEF Bind, UdpTypeOK
    <2>2. /\ rxAt' \in [Attempts -> {"none", "recv", "claim", "dispatch", "end"}]
          /\ txAt' \in [Attempts -> {"none", "recv", "send", "end"}]
        BY <1>1 DEF Bind, UdpTypeOK
    <2>3. QED
        BY <1>1, <2>1, <2>2 DEF Bind, UdpTypeOK, netVars, readVars, writeVars, bufferVars
<1>2. CASE Built
    BY <1>2 DEF Built, UdpTypeOK, netVars, rxVars, txVars, readVars, writeVars, bufferVars
<1>3. QED
    BY <1>1, <1>2 DEF Build

\* (A receiving task's next place and item are of their types.)
LEMMA RxStepTypes ==
    ASSUME UdpTypeOK, NEW s \in Attempts, NEW from, NEW to \in {"none", "recv", "claim", "dispatch", "end"},
           NEW item \in Datagram, RxStep(s, from, to, item)
    PROVE  /\ rxItem' \in [Attempts -> Datagram]
           /\ rxAt' \in [Attempts -> {"none", "recv", "claim", "dispatch", "end"}]
BY DEF RxStep, UdpTypeOK

\* a receiving task's steps keep them,
LEMMA TypesRx ==
    ASSUME UdpTypeOK, NEW s \in Attempts, RxTask(s) \/ RxSocketError(s)
    PROVE  UdpTypeOK'
<1>0. rxItem[s] \in Datagram /\ kernel[s] \in Seq(Datagram) /\ ingress \in Seq(Datagram)
    BY DEF UdpTypeOK
<1>1. CASE RxReceive(s)
    <2>1. Head(kernel[s]) \in Datagram /\ Tail(kernel[s]) \in Seq(Datagram)
        BY <1>0, <1>1, ElementsTail DEF RxReceive
    <2>2. kernel' \in [Attempts -> Seq(Datagram)]
        BY <1>1, <2>1 DEF RxReceive, UdpTypeOK
    <2>3. /\ rxItem' \in [Attempts -> Datagram]
          /\ rxAt' \in [Attempts -> {"none", "recv", "claim", "dispatch", "end"}]
        BY <1>1, <2>1, NothingType DEF RxReceive, RxStep, UdpTypeOK
    <2>4. QED
        BY <1>1, <2>2, <2>3
           DEF RxReceive, UdpTypeOK, buildVars, txVars, readVars, writeVars, bufferVars
<1>2. CASE RxSocketError(s)
    BY <1>2, NothingType
       DEF RxSocketError, RxStep, UdpTypeOK, buildVars, netVars, txVars, readVars, writeVars, bufferVars
<1>3. CASE RxClaim(s)
    <2>1. /\ [rxItem[s] EXCEPT !.what = "error"] \in Datagram
          /\ rxItem[s].from \in Peers \cup {NoPeer}
        BY <1>0 DEF Datagram
    <2>2. counterparty' \in Peers \cup {NoPeer}
        BY <1>3, <2>1 DEF RxClaim, UdpTypeOK
    <2>3. /\ rxItem' \in [Attempts -> Datagram]
          /\ rxAt' \in [Attempts -> {"none", "recv", "claim", "dispatch", "end"}]
        <3>1. \E item \in Datagram, to \in {"dispatch", "recv"} : RxStep(s, "claim", to, item)
            BY <1>0, <1>3, <2>1, NothingType DEF RxClaim
        <3>2. QED
            BY <3>1, RxStepTypes
    <2>4. UNCHANGED <<buildVars, netVars, ingress, txVars, readVars, writeVars, bufferVars>>
        BY <1>3 DEF RxClaim
    <2>5. QED
        BY <2>2, <2>3, <2>4
           DEF UdpTypeOK, buildVars, netVars, txVars, readVars, writeVars, bufferVars
<1>4. CASE RxDispatch(s)
    <2>1. ingress' \in Seq(Datagram) /\ Len(ingress') <= QueueSize
        <3>1. CASE ingress' = ingress
            BY <3>1 DEF UdpTypeOK
        <3>2. CASE Len(ingress) < QueueSize /\ ingress' = Append(ingress, rxItem[s])
            <4>1. ingress' \in Seq(Datagram) /\ Len(ingress') = Len(ingress) + 1 /\ Len(ingress) \in Nat
                BY <1>0, <3>2, ElementsAppend
            <4>2. QED
                BY <3>2, <4>1, ConstFacts
        <3>3. QED
            BY <1>4, <3>1, <3>2 DEF RxDispatch
    <2>2. /\ rxItem' \in [Attempts -> Datagram]
          /\ rxAt' \in [Attempts -> {"none", "recv", "claim", "dispatch", "end"}]
        <3>1. \E to \in {"end", "recv"} : RxStep(s, "dispatch", to, Nothing)
            BY <1>4 DEF RxDispatch
        <3>2. QED
            BY <3>1, RxStepTypes, NothingType
    <2>3. UNCHANGED <<buildVars, counterparty, netVars, txVars, readVars, writeVars, bufferVars>>
        BY <1>4 DEF RxDispatch
    <2>4. QED
        BY <2>1, <2>2, <2>3
           DEF UdpTypeOK, buildVars, netVars, txVars, readVars, writeVars, bufferVars
<1>5. CASE RxAborted(s)
    BY <1>5, NothingType
       DEF RxAborted, RxStep, UdpTypeOK, buildVars, netVars, txVars, readVars, writeVars, bufferVars
<1>6. QED
    BY <1>1, <1>2, <1>3, <1>4, <1>5 DEF RxTask

\* What a receive from the egress queue does to it: the buffer that waits, if any, moves up.
LEMMA TakeEffect ==
    ASSUME UdpTypeOK, NEW s \in Attempts, TxTake(s)
    PROVE  /\ egress # <<>> /\ egress \in Seq(Nat) /\ accepted \in Seq(Nat) /\ waiting \in Nat
           /\ Head(egress) \in Nat /\ Tail(egress) \in Seq(Nat)
           /\ waiting' = 0
           /\ waiting = 0 => egress' = Tail(egress) /\ accepted' = accepted
           /\ waiting # 0 => /\ egress' = Append(Tail(egress), waiting)
                             /\ accepted' = Append(accepted, waiting)
<1>1. /\ egress # <<>> /\ egress \in Seq(Nat) /\ accepted \in Seq(Nat) /\ waiting \in Nat /\ waiting' = 0
    BY DEF TxTake, UdpTypeOK
<1>2. Head(egress) \in Nat /\ Tail(egress) \in Seq(Nat)
    BY <1>1, ElementsTail
<1>3. ASSUME NEW q \in Seq(Nat)
      PROVE  q \o <<>> = q /\ q \o <<waiting>> = Append(q, waiting)
    <2>1. q \o <<>> = q
        BY ConcatEmptySeq
    <2>2. q \o <<waiting>> = Append(q, waiting)
        BY <1>1, AppendIsConcat
    <2>3. QED
        BY <2>1, <2>2
<1>4. waiting = 0 => egress' = Tail(egress) /\ accepted' = accepted
    BY <1>1, <1>2, <1>3 DEF TxTake
<1>5. waiting # 0 => /\ egress' = Append(Tail(egress), waiting)
                     /\ accepted' = Append(accepted, waiting)
    BY <1>1, <1>2, <1>3 DEF TxTake
<1>6. QED
    BY <1>1, <1>2, <1>4, <1>5

\* A sending task keeps to its places.
LEMMA TxStepType ==
    ASSUME UdpTypeOK, NEW s \in Attempts, NEW from, NEW to \in {"recv", "send", "end"},
           NEW item \in Nat, TxStep(s, from, to, item)
    PROVE  txItem' \in [Attempts -> Nat] /\ txAt' \in [Attempts -> {"none", "recv", "send", "end"}]
BY DEF TxStep, UdpTypeOK

\* The sending tasks keep the types.
LEMMA TypesTx ==
    ASSUME UdpTypeOK, NEW s \in Attempts, TxTask(s)
    PROVE  UdpTypeOK'
<1>1. CASE TxTake(s)
    <2>0. Len(egress) \in Nat /\ Len(egress) <= QueueSize
        BY DEF UdpTypeOK
    <2>1. /\ Len(Tail(egress)) = Len(egress) - 1 /\ Len(egress) > 0
        BY <1>1, TakeEffect, ElementsTail
    <2>2. /\ egress' \in Seq(Nat) /\ Len(egress') <= QueueSize /\ accepted' \in Seq(Nat)
        <3>1. CASE waiting = 0
            <4>1. egress' = Tail(egress) /\ accepted' = accepted
                BY <1>1, <3>1, TakeEffect
            <4>2. Len(Tail(egress)) <= QueueSize
                BY <2>0, <2>1, ConstFacts
            <4>3. QED
                BY <1>1, <4>1, <4>2, TakeEffect
        <3>2. CASE waiting # 0
            <4>1. egress' = Append(Tail(egress), waiting) /\ accepted' = Append(accepted, waiting)
                BY <1>1, <3>2, TakeEffect
            <4>2. /\ egress' \in Seq(Nat) /\ accepted' \in Seq(Nat)
                  /\ Len(egress') = Len(Tail(egress)) + 1
                BY <1>1, <4>1, TakeEffect, ElementsAppend
            <4>3. QED
                BY <2>0, <2>1, <4>2
        <3>3. QED
            BY <3>1, <3>2
    <2>3. txItem' \in [Attempts -> Nat] /\ txAt' \in [Attempts -> {"none", "recv", "send", "end"}]
        BY <1>1, TakeEffect, TxStepType DEF TxTake
    <2>4. QED
        BY <1>1, <2>2, <2>3
           DEF TxTake, UdpTypeOK, buildVars, netVars, rxVars, readVars, writeVars
<1>2. CASE TxSend(s)
    <2>1. sent' \in Seq([by : Attempts, to : Peers \cup {NoPeer}, data : Nat])
        <3> DEFINE call == [by |-> s, to |-> counterparty, data |-> txItem[s]]
                   Calls == [by : Attempts, to : Peers \cup {NoPeer}, data : Nat]
        <3>1. call \in Calls
            BY DEF UdpTypeOK
        <3>2. sent \in Seq(Calls)
            BY DEF UdpTypeOK
        <3>3. sent' = sent \/ sent' = Append(sent, call)
            BY <1>2 DEF TxSend
        <3> HIDE DEF call, Calls
        <3>4. Append(sent, call) \in Seq(Calls)
            BY <3>1, <3>2, ElementsAppend
        <3>5. sent' \in Seq(Calls)
            BY <3>2, <3>3, <3>4
        <3>6. QED
            BY <3>5 DEF Calls
    <2>2. txItem' \in [Attempts -> Nat] /\ txAt' \in [Attempts -> {"none", "recv", "send", "end"}]
        <3>1. CASE TxStep(s, "send", "end", 0)
            BY <3>1, TxStepType
        <3>2. CASE TxStep(s, "send", "recv", 0)
            BY <3>2, TxStepType
        <3>3. QED
            BY <1>2, <3>1, <3>2 DEF TxSend
    <2>3. QED
        BY <1>2, <2>1, <2>2
           DEF TxSend, UdpTypeOK, buildVars, netVars, rxVars, readVars, writeVars, bufferVars
<1>3. CASE TxEnd(s)
    <2>1. PICK from : TxStep(s, from, "end", 0)
        BY <1>3, Zenon DEF TxEnd
    <2>2. txItem' \in [Attempts -> Nat] /\ txAt' \in [Attempts -> {"none", "recv", "send", "end"}]
        BY <2>1, TxStepType
    <2>3. QED
        BY <1>3, <2>2
           DEF TxEnd, UdpTypeOK, buildVars, netVars, rxVars, readVars, writeVars, bufferVars
<1>4. QED
    BY <1>1, <1>2, <1>3 DEF TxTask

\* The five things one call of poll_write can do with a buffer.
WriteRefused(d) ==
    /\ flushing = 0 /\ d = offered + 1
    /\ refused' = refused \cup {d} /\ UNCHANGED <<flushing, reported, egress, waiting, accepted>>
WriteQueued(d) ==
    /\ flushing = 0 /\ d = offered + 1 /\ Len(egress) < QueueSize
    /\ egress' = Append(egress, d) /\ accepted' = Append(accepted, d) /\ reported' = Append(reported, d)
    /\ UNCHANGED <<flushing, waiting, refused>>
WriteWaits(d) ==
    /\ flushing = 0 /\ d = offered + 1 /\ waiting' = d /\ flushing' = d
    /\ UNCHANGED <<reported, egress, accepted, refused>>
WriteReported ==
    /\ flushing # 0 /\ waiting = 0 /\ flushing' = 0 /\ reported' = Append(reported, flushing)
    /\ UNCHANGED <<refused, egress, waiting, accepted>>
WriteLost ==
    /\ flushing # 0 /\ waiting # 0 /\ flushing' = 0
    /\ refused' = refused \cup {waiting} /\ waiting' = 0
    /\ UNCHANGED <<reported, egress, accepted>>

\* poll_write does one of them, and the number of buffers offered never falls.
LEMMA WriteEffect ==
    ASSUME UdpTypeOK, NEW d \in 1 .. MaxWrites, PollWrite(d)
    PROVE  /\ WriteRefused(d) \/ WriteQueued(d) \/ WriteWaits(d) \/ WriteReported \/ WriteLost
           /\ offered' \in Nat /\ offered <= offered' /\ d <= offered' /\ offered' <= MaxWrites
           /\ phase # "dropped" /\ phase' = phase
<1>1. offered \in Nat /\ offered <= MaxWrites /\ d \in Nat /\ d <= MaxWrites
    BY ConstFacts DEF UdpTypeOK
<1>2. offered' \in Nat /\ offered <= offered' /\ d <= offered' /\ offered' <= MaxWrites
    BY <1>1 DEF PollWrite, AtLeast
<1>5. phase # "dropped" /\ phase' = phase
    BY DEF PollWrite, Owned, buildVars
<1>3. CASE WriteNew(d)
    <2>1. CASE Disconnected
        <3>1. WriteRefused(d)
            BY <1>3, <2>1 DEF WriteNew, bufferVars, WriteRefused
        <3>2. QED
            BY <1>2, <1>5, <3>1
    <2>2. CASE ~Disconnected /\ Len(egress) < QueueSize
        <3>1. WriteQueued(d)
            BY <1>3, <2>2 DEF WriteNew, WriteQueued
        <3>2. QED
            BY <1>2, <1>5, <3>1
    <2>3. CASE ~Disconnected /\ ~(Len(egress) < QueueSize)
        <3>1. WriteWaits(d)
            BY <1>3, <2>3 DEF WriteNew, WriteWaits
        <3>2. QED
            BY <1>2, <1>5, <3>1
    <2>4. QED
        BY <2>1, <2>2, <2>3
<1>4. CASE WriteResume(d)
    <2>1. CASE waiting = 0
        <3>1. WriteReported
            BY <1>4, <2>1 DEF WriteResume, bufferVars, WriteReported
        <3>2. QED
            BY <1>2, <1>5, <3>1
    <2>2. CASE waiting # 0
        <3>1. WriteLost
            BY <1>4, <2>2 DEF WriteResume, WriteLost
        <3>2. QED
            BY <1>2, <1>5, <3>1
    <2>3. QED
        BY <2>1, <2>2
<1>6. QED
    BY <1>3, <1>4 DEF PollWrite

\* The types of the writer's bookkeeping, and how its parts are bounded.
LEMMA WriterTypes ==
    ASSUME UdpTypeOK
    PROVE  /\ egress \in Seq(Nat) /\ accepted \in Seq(Nat) /\ reported \in Seq(Nat)
           /\ waiting \in Nat /\ flushing \in Nat /\ offered \in Nat /\ flushing <= offered
           /\ offered <= MaxWrites /\ Len(egress) \in Nat /\ Len(egress) <= QueueSize
           /\ waiting = 0 \/ waiting = flushing
           /\ refused \subseteq Nat
BY ConstFacts DEF UdpTypeOK

\* poll_write keeps the types.
LEMMA TypesWrite ==
    ASSUME UdpTypeOK, NEW d \in 1 .. MaxWrites, PollWrite(d)
    PROVE  UdpTypeOK'
<1>0. d \in Nat
    OBVIOUS
<1>1. /\ flushing' \in Nat /\ flushing' <= offered' /\ (waiting' = 0 \/ waiting' = flushing')
      /\ refused' \subseteq Nat
    <2>1. CASE WriteRefused(d) \/ WriteQueued(d)
        <3>1. flushing' = flushing /\ waiting' = waiting /\ refused' \subseteq refused \cup {d}
            BY <2>1 DEF WriteRefused, WriteQueued
        <3>2. QED
            BY <1>0, <3>1, WriterTypes, WriteEffect
    <2>2. CASE WriteWaits(d)
        BY <1>0, <2>2, WriterTypes, WriteEffect DEF WriteWaits
    <2>3. CASE WriteReported
        BY <2>3, WriterTypes, WriteEffect DEF WriteReported
    <2>4. CASE WriteLost
        BY <2>4, WriterTypes, WriteEffect DEF WriteLost
    <2>5. QED
        BY <2>1, <2>2, <2>3, <2>4, WriteEffect
<1>2. /\ egress' \in Seq(Nat) /\ Len(egress') <= QueueSize
      /\ accepted' \in Seq(Nat) /\ reported' \in Seq(Nat)
    <2>1. CASE WriteQueued(d)
        <3>1. /\ egress' \in Seq(Nat) /\ accepted' \in Seq(Nat) /\ reported' \in Seq(Nat)
              /\ Len(egress') = Len(egress) + 1 /\ Len(egress) < QueueSize
            BY <1>0, <2>1, WriterTypes, ElementsAppend DEF WriteQueued
        <3>2. Len(egress') <= QueueSize
            BY <3>1, WriterTypes, ConstFacts
        <3>3. QED
            BY <3>1, <3>2
    <2>2. CASE WriteReported
        BY <2>2, WriterTypes, ElementsAppend DEF WriteReported
    <2>3. CASE WriteRefused(d) \/ WriteWaits(d) \/ WriteLost
        <3>1. egress' = egress /\ accepted' = accepted /\ reported' = reported
            BY <2>3 DEF WriteRefused, WriteWaits, WriteLost
        <3>2. QED
            BY <3>1, WriterTypes
    <2>4. QED
        BY <2>1, <2>2, <2>3, WriteEffect
<1>3. offered' \in 0 .. MaxWrites /\ flushing' \in 0 .. offered' /\ waiting' \in {0, flushing'}
    BY <1>1, WriteEffect, ConstFacts
<1>4. QED
    BY <1>1, <1>2, <1>3 DEF PollWrite, UdpTypeOK, buildVars, netVars, rxVars, txVars, readVars

\* the owner's reads, flushes, shutdown and drop keep them,
LEMMA TypesOwner ==
    ASSUME UdpTypeOK, PollRead \/ PollFlush \/ PollShutdown \/ Drop
    PROVE  UdpTypeOK'
<1>1. CASE PollRead
    <2>0. /\ ingress \in Seq(Datagram) /\ read \in Seq(Datagram) /\ told \subseteq Datagram
          /\ Len(ingress) \in Nat /\ Len(ingress) <= QueueSize
        BY DEF UdpTypeOK
    <2>1. /\ ingress' \in Seq(Datagram) /\ Len(ingress') <= QueueSize
          /\ read' \in Seq(Datagram) /\ told' \subseteq Datagram
        <3>1. CASE ingress # <<>>
            <4>1. /\ Head(ingress) \in Datagram /\ Tail(ingress) \in Seq(Datagram)
                  /\ Len(Tail(ingress)) = Len(ingress) - 1
                BY <2>0, <3>1, ElementsTail
            <4>2. Append(read, Head(ingress)) \in Seq(Datagram)
                BY <2>0, <4>1, ElementsAppend
            <4>3. Len(Tail(ingress)) <= QueueSize
                BY <2>0, <4>1, ConstFacts
            <4>4. QED
                BY <1>1, <2>0, <3>1, <4>1, <4>2, <4>3 DEF PollRead
        <3>2. CASE ~(ingress # <<>>)
            <4>1. Nothing \in Datagram
                <5>1. 0 \in Attempts
                    <6>1. /\ NumSocks \in Nat \ {0} /\ NumAddrs \in Nat \ {0}
                        BY SocketFacts, ConstFacts
                    <6>2. NumAddrs * NumSocks > 0
                        BY <6>1
                    <6>3. QED
                        BY <6>1, <6>2 DEF Attempts
                <5>2. QED
                    BY <5>1, NothingType
            <4>2. QED
                BY <1>1, <2>0, <3>2, <4>1 DEF PollRead
        <3>3. QED
            BY <3>1, <3>2
    <2>2. QED
        BY <1>1, <2>1 DEF PollRead, UdpTypeOK, buildVars, netVars, txVars, writeVars, bufferVars
<1>2. CASE PollFlush
    <2>1. refused' \subseteq Nat /\ waiting' = 0
        BY <1>2 DEF PollFlush, UdpTypeOK
    <2>2. QED
        BY <1>2, <2>1 DEF PollFlush, UdpTypeOK, buildVars, netVars, rxVars, txVars, readVars
<1>3. CASE PollShutdown
    <2>1. refused' \subseteq Nat /\ waiting' = 0
        BY <1>3 DEF PollShutdown, UdpTypeOK
    <2>2. QED
        BY <1>3, <2>1 DEF PollShutdown, UdpTypeOK, netVars, rxVars, txVars, readVars
<1>4. CASE Drop
    BY <1>4 DEF Drop, UdpTypeOK, netVars, rxVars, txVars, readVars, writeVars
<1>5. QED
    BY <1>1, <1>2, <1>3, <1>4

\* and with them every step.
LEMMA TypesStep ==
    ASSUME UdpTypeOK, [Next]_vars
    PROVE  UdpTypeOK'
<1>1. CASE UNCHANGED vars
    BY <1>1 DEF UdpTypeOK, vars, buildVars, netVars, rxVars, txVars, readVars, writeVars, bufferVars
<1>2. QED
    BY <1>1, TypesBuild, TypesOwner, TypesWrite, TypesArrive, TypesRx, TypesTx DEF Next, Owner
-----------------------------------------------------------------------------
(* The way of a datagram: order. *)

\* One step of the receiving task of socket s, as its other variables see it.
LEMMA RxStepEffect ==
    ASSUME UdpTypeOK, NEW s \in Attempts, NEW from, NEW to, NEW item, RxStep(s, from, to, item)
    PROVE  /\ rxAt[s] = from /\ rxAt'[s] = to /\ rxItem'[s] = item
           /\ \A t \in Attempts \ {s} : rxAt'[t] = rxAt[t] /\ rxItem'[t] = rxItem[t]
BY DEF RxStep, UdpTypeOK

\* y is the datagram x, perhaps turned into an error, or no datagram of a peer.
Like(y, x) == y.from = NoPeer \/ (y.from = x.from /\ y.n = x.n /\ y.via = x.via)

\* What a step can do to the datagrams on their way: nothing, replace what a task holds, take
\* from a socket, put into the queue, take from the queue.
Others(s) == \A t \in Attempts \ {s} : rxItem'[t] = rxItem[t]
StaysPut == UNCHANGED <<kernel, arrived, rxItem, ingress, read>>
Changes(s) == UNCHANGED <<kernel, arrived, ingress, read>> /\ Others(s) /\ Like(rxItem'[s], rxItem[s])
Pulls(s) ==
    /\ UNCHANGED <<arrived, ingress, read>> /\ Others(s) /\ kernel[s] # <<>>
    /\ Like(rxItem'[s], Head(kernel[s]))
    /\ kernel'[s] = Tail(kernel[s]) /\ \A t \in Attempts \ {s} : kernel'[t] = kernel[t]
Pushes(s) ==
    /\ UNCHANGED <<kernel, arrived, read>> /\ Others(s) /\ rxItem'[s].from = NoPeer
    /\ ingress' = Append(ingress, rxItem[s])
Delivers ==
    /\ UNCHANGED <<kernel, arrived, rxItem>> /\ ingress # <<>> /\ ingress' = Tail(ingress)
    /\ read' = read \/ read' = Append(read, Head(ingress))

\* Every step of a receiving task is one of these.
LEMMA RxEffect ==
    ASSUME UdpTypeOK, NEW s \in Attempts, RxTask(s) \/ RxSocketError(s)
    PROVE  Changes(s) \/ Pulls(s) \/ Pushes(s)
<1>0. rxItem[s] \in Datagram /\ Nothing.from = NoPeer /\ kernel \in [Attempts -> Seq(Datagram)]
    BY DEF UdpTypeOK, Nothing
<1>1. CASE RxReceive(s)
    <2>1. PICK to, item : RxStep(s, "recv", to, item) /\ (item = Nothing \/ item = Head(kernel[s]))
        BY <1>1, Zenon DEF RxReceive
    <2>2. /\ UNCHANGED <<arrived, ingress, read>> /\ kernel[s] # <<>>
          /\ kernel'[s] = Tail(kernel[s]) /\ \A t \in Attempts \ {s} : kernel'[t] = kernel[t]
        BY <1>0, <1>1 DEF RxReceive, readVars
    <2>3. QED
        BY <1>0, <2>1, <2>2, RxStepEffect DEF Pulls, Others, Like
<1>2. CASE RxSocketError(s)
    <2> DEFINE failure == [Nothing EXCEPT !.via = s, !.what = "error"]
    <2>1. RxStep(s, "recv", "dispatch", failure) /\ UNCHANGED <<kernel, arrived, ingress, read>>
        BY <1>2 DEF RxSocketError, netVars, readVars
    <2>e. failure.from = NoPeer
        BY NothingType
    <2> HIDE DEF failure
    <2>2. Others(s) /\ rxItem'[s].from = NoPeer
        BY <2>1, <2>e, RxStepEffect DEF Others
    <2>3. QED
        BY <2>1, <2>2 DEF Changes, Like
<1>3. CASE RxClaim(s)
    <2>1. UNCHANGED <<kernel, arrived, ingress, read>>
        BY <1>3 DEF RxClaim, netVars, readVars
    <2>2. PICK to, item : /\ RxStep(s, "claim", to, item)
                          /\ item \in {rxItem[s], Nothing, [rxItem[s] EXCEPT !.what = "error"]}
        <3>1. \/ RxStep(s, "claim", "dispatch", rxItem[s]) \/ RxStep(s, "claim", "recv", Nothing)
              \/ RxStep(s, "claim", "dispatch", [rxItem[s] EXCEPT !.what = "error"])
            BY <1>3 DEF RxClaim
        <3>2. QED
            BY <3>1, Zenon
    <2>3. Like(item, rxItem[s])
        <3>1. ASSUME NEW x \in Datagram
              PROVE  Like(x, x) /\ Like(Nothing, x) /\ Like([x EXCEPT !.what = "error"], x)
            BY <1>0 DEF Like, Datagram
        <3>2. QED
            BY <1>0, <2>2, <3>1
    <2>4. Others(s) /\ rxItem'[s] = item
        BY <2>2, RxStepEffect DEF Others
    <2>5. QED
        BY <2>1, <2>3, <2>4 DEF Changes
<1>4. CASE RxDispatch(s)
    <2>1. UNCHANGED <<kernel, arrived, read>>
        BY <1>4 DEF RxDispatch, netVars, readVars
    <2>2. PICK to : RxStep(s, "dispatch", to, Nothing)
        BY <1>4, Zenon DEF RxDispatch
    <2>3. ingress' = ingress \/ ingress' = Append(ingress, rxItem[s])
        BY <1>4 DEF RxDispatch
    <2>4. Others(s) /\ rxItem'[s] = Nothing
        BY <2>2, RxStepEffect DEF Others
    <2>5. QED
        BY <1>0, <2>1, <2>3, <2>4 DEF Changes, Pushes, Like
<1>5. CASE RxAborted(s)
    <2>1. UNCHANGED <<kernel, arrived, ingress, read>> /\ RxStep(s, rxAt[s], "end", Nothing)
        BY <1>5 DEF RxAborted, netVars, readVars
    <2>2. Others(s) /\ rxItem'[s] = Nothing
        BY <2>1, RxStepEffect DEF Others
    <2>3. QED
        BY <1>0, <2>1, <2>2 DEF Changes, Like
<1>6. QED
    BY <1>1, <1>2, <1>3, <1>4, <1>5 DEF RxTask

\* So is every step of anybody else, but for a new arrival.
LEMMA StepEffect ==
    ASSUME UdpTypeOK, [Next]_vars
    PROVE  \/ StaysPut \/ Delivers
           \/ \E p \in Peers : Arrive(p) /\ UNCHANGED <<rxItem, ingress, read>>
           \/ \E s \in Attempts : Changes(s) \/ Pulls(s) \/ Pushes(s)
<1>1. CASE UNCHANGED vars
    BY <1>1 DEF vars, netVars, rxVars, readVars, StaysPut
<1>2. CASE Build
    BY <1>2 DEF Build, Bind, Built, netVars, rxVars, readVars, StaysPut
<1>3. CASE PollRead
    BY <1>3 DEF PollRead, netVars, StaysPut, Delivers
<1>4. CASE PollFlush \/ PollShutdown \/ Drop \/ \E d \in 1 .. MaxWrites : PollWrite(d)
    BY <1>4 DEF PollFlush, PollShutdown, Drop, PollWrite, netVars, rxVars, readVars, StaysPut
<1>5. ASSUME NEW p \in Peers, Arrive(p)
      PROVE  UNCHANGED <<rxItem, ingress, read>>
    BY <1>5 DEF Arrive, rxVars, readVars
<1>6. ASSUME NEW s \in Attempts, TxTask(s)
      PROVE  StaysPut
    BY <1>6 DEF TxTask, TxTake, TxSend, TxEnd, netVars, rxVars, readVars, StaysPut
<1>7. QED
    BY <1>1, <1>2, <1>3, <1>4, <1>5, <1>6, RxEffect, Zenon DEF Next, Owner

\* The order of two datagrams depends only on what Like compares.
LEMMA EarlierLike ==
    ASSUME NEW x, NEW y, NEW z, Like(y, z)
    PROVE  (Earlier(x, z) => Earlier(x, y)) /\ (Earlier(z, x) => Earlier(y, x))
BY DEF Like, Earlier

\* so it is ordered with every other datagram as the one it replaces was.
LEMMA BeforeLike ==
    ASSUME NEW A, NEW B, NEW y, NEW z, Like(y, z)
    PROVE  /\ z \in B => \A C : C \subseteq B /\ Before(A, B) => Before(A, C \cup {y})
           /\ Before({z}, A) => Before({y}, A)
<1>1. ASSUME z \in B, NEW C, C \subseteq B, Before(A, B)
      PROVE  Before(A, C \cup {y})
    <2> SUFFICES ASSUME NEW x \in A, NEW w \in C \cup {y}
                 PROVE  Earlier(x, w)
        BY DEF Before
    <2>1. CASE w \in C
        BY <1>1, <2>1 DEF Before
    <2>2. CASE w = y
        <3>1. Earlier(x, z)
            BY <1>1 DEF Before
        <3>2. QED
            BY <2>2, <3>1, EarlierLike
    <2>3. QED
        BY <2>1, <2>2
<1>2. ASSUME Before({z}, A)
      PROVE  Before({y}, A)
    <2> SUFFICES ASSUME NEW x \in A
                 PROVE  Earlier(y, x)
        BY DEF Before
    <2>1. Earlier(z, x)
        BY <1>2 DEF Before
    <2>2. QED
        BY <2>1, EarlierLike
<1>3. QED
    BY <1>1, <1>2

\* What a queue holds is of its type.
LEMMA ElementsType ==
    ASSUME NEW S, NEW q \in Seq(S)
    PROVE  Elements(q) \subseteq S
BY DEF Elements

\* A task that replaces what it holds disturbs no order.
LEMMA OrderChanges ==
    ASSUME UdpTypeOK, Order, NEW s \in Attempts, Changes(s)
    PROVE  Order'
<1>1. UNCHANGED <<kernel, ingress, read>>
    BY DEF Changes
<1>2. ASSUME NEW t \in Attempts
      PROVE  Like(rxItem'[t], rxItem[t])
    <2>1. CASE t = s
        BY <2>1 DEF Changes
    <2>2. CASE t # s
        BY <2>2 DEF Changes, Others, Like
    <2>3. QED
        BY <2>1, <2>2
<1>3. ASSUME NEW t \in Attempts
      PROVE  OrderAt(t)'
    <2>1. OrderAt(t)
        BY DEF Order
    <2>2. rxItem'[t].from # NoPeer => rxItem'[t].via = t
        BY <1>2, <2>1 DEF OrderAt, Like
    <2>3. Before(Elements(read) \cup Elements(ingress), Elements(kernel[t]) \cup {rxItem'[t]})
        <3>1. /\ rxItem[t] \in Elements(kernel[t]) \cup {rxItem[t]}
              /\ Elements(kernel[t]) \subseteq Elements(kernel[t]) \cup {rxItem[t]}
            OBVIOUS
        <3>2. Before(Elements(read) \cup Elements(ingress), Elements(kernel[t]) \cup {rxItem[t]})
            BY <2>1 DEF OrderAt
        <3>3. QED
            BY <1>2, <3>1, <3>2, BeforeLike
    <2>4. Before({rxItem'[t]}, Elements(kernel[t]))
        <3>1. Before({rxItem[t]}, Elements(kernel[t]))
            BY <2>1 DEF OrderAt
        <3>2. QED
            BY <1>2, <3>1, BeforeLike
    <2>5. QED
        BY <1>1, <2>1, <2>2, <2>3, <2>4 DEF OrderAt
<1>4. QED
    BY <1>1, <1>3 DEF Order

\* A task that takes the first datagram of its socket comes before the rest of it.
LEMMA OrderPulls ==
    ASSUME UdpTypeOK, Order, NEW s \in Attempts, Pulls(s)
    PROVE  Order'
<1>1. ingress' = ingress /\ read' = read
    BY DEF Pulls
<1>2. kernel[s] \in Seq(Datagram) /\ kernel[s] # <<>>
    BY DEF UdpTypeOK, Pulls
<1> DEFINE h == Head(kernel[s])
           rest == Tail(kernel[s])
<1>3. OrderAt(s)
    BY DEF Order
<1>4. h \in Elements(kernel[s]) /\ Elements(rest) \subseteq Elements(kernel[s])
    BY <1>2, ElementsTail
<1>5. Ascending(rest) /\ Before({h}, Elements(rest))
    BY <1>2, <1>3, AscendingTail DEF OrderAt
<1>6. kernel'[s] = rest /\ Like(rxItem'[s], h)
    BY DEF Pulls
<1> HIDE DEF h, rest
<1>7. OrderAt(s)'
    <2>1. rxItem'[s].from # NoPeer => rxItem'[s].via = s
        BY <1>3, <1>4, <1>6 DEF OrderAt, Like
    <2>2. \A x \in Elements(rest) : x.via = s
        BY <1>3, <1>4 DEF OrderAt
    <2>3. Before(Elements(read) \cup Elements(ingress), Elements(rest) \cup {rxItem'[s]})
        <3>1. /\ h \in Elements(kernel[s]) \cup {rxItem[s]}
              /\ Elements(rest) \subseteq Elements(kernel[s]) \cup {rxItem[s]}
            BY <1>4
        <3>2. Before(Elements(read) \cup Elements(ingress), Elements(kernel[s]) \cup {rxItem[s]})
            BY <1>3 DEF OrderAt
        <3>3. QED
            BY <1>6, <3>1, <3>2, BeforeLike
    <2>4. Before({rxItem'[s]}, Elements(rest))
        BY <1>5, <1>6, BeforeLike
    <2>5. QED
        BY <1>1, <1>5, <1>6, <2>1, <2>2, <2>3, <2>4 DEF OrderAt
<1>8. ASSUME NEW t \in Attempts, t # s
      PROVE  OrderAt(t)'
    <2>1. OrderAt(t) /\ kernel'[t] = kernel[t] /\ rxItem'[t] = rxItem[t]
        BY <1>8 DEF Order, Pulls, Others
    <2>2. QED
        BY <1>1, <2>1 DEF OrderAt
<1>9. QED
    BY <1>1, <1>7, <1>8 DEF Order

\* What a task puts into the queue comes after all that is in it and before all that is
\* still in its socket; what other sockets hold came another way.
LEMMA OrderPushes ==
    ASSUME UdpTypeOK, Order, NEW s \in Attempts, Pushes(s)
    PROVE  Order'
<1> DEFINE x == rxItem[s]
<1>1. /\ ingress' = Append(ingress, x) /\ read' = read /\ kernel' = kernel /\ rxItem'[s].from = NoPeer
      /\ \A t \in Attempts \ {s} : rxItem'[t] = rxItem[t]
    BY DEF Pushes, Others
<1>2. x \in Datagram /\ ingress \in Seq(Datagram)
    BY DEF UdpTypeOK
<1>3. Elements(ingress') = Elements(ingress) \cup {x}
    BY <1>1, <1>2, ElementsAppend
<1>4. OrderAt(s)
    BY DEF Order
<1>5. Before(Elements(read) \cup Elements(ingress), {x}) /\ Before({x}, Elements(kernel[s]))
    BY <1>4 DEF OrderAt, Before
<1>6. Ascending(ingress')
    <2>1. Before(Elements(ingress), {x})
        BY <1>5 DEF Before
    <2>2. Ascending(ingress)
        BY DEF Order
    <2>3. QED
        BY <1>1, <1>2, <2>1, <2>2, AscendingAppend
<1>7. Before(Elements(read), Elements(ingress'))
    BY <1>3, <1>5 DEF Before, Order
<1>8. x.from # NoPeer => x.via = s
    BY <1>4 DEF OrderAt
<1> HIDE DEF x
<1>9. ASSUME NEW t \in Attempts
      PROVE  OrderAt(t)'
    <2>0. OrderAt(t)
        BY DEF Order
    <2>1. CASE t = s
        <3>1. Before(Elements(read') \cup Elements(ingress'), Elements(kernel[s]) \cup {rxItem'[s]})
            BY <1>1, <1>3, <1>4, <1>5 DEF OrderAt, Before, Earlier
        <3>2. Before({rxItem'[s]}, Elements(kernel[s]))
            BY <1>1 DEF Before, Earlier
        <3>3. QED
            BY <1>1, <1>4, <2>1, <3>1, <3>2 DEF OrderAt
    <2>2. CASE t # s
        <3>1. Before({x}, Elements(kernel[t]) \cup {rxItem[t]})
            BY <1>8, <2>0, <2>2 DEF OrderAt, Before, Earlier
        <3>2. Before(Elements(read') \cup Elements(ingress'), Elements(kernel[t]) \cup {rxItem[t]})
            BY <1>1, <1>3, <2>0, <3>1 DEF OrderAt, Before
        <3>3. rxItem'[t] = rxItem[t]
            BY <1>1, <2>2
        <3>4. QED
            BY <1>1, <2>0, <3>2, <3>3 DEF OrderAt
    <2>3. QED
        BY <2>1, <2>2
<1>10. QED
    BY <1>1, <1>6, <1>7, <1>9 DEF Order

\* The reader gets what is first in the queue.
LEMMA OrderDelivers ==
    ASSUME UdpTypeOK, Order, Delivers
    PROVE  Order'
<1> DEFINE h == Head(ingress)
           rest == Tail(ingress)
<1>1. /\ kernel' = kernel /\ rxItem' = rxItem /\ ingress' = rest
      /\ read' = read \/ read' = Append(read, h)
    BY DEF Delivers
<1>2. ingress \in Seq(Datagram) /\ ingress # <<>> /\ read \in Seq(Datagram)
    BY DEF UdpTypeOK, Delivers
<1>3. h \in Datagram /\ h \in Elements(ingress) /\ Elements(rest) \subseteq Elements(ingress)
    BY <1>2, ElementsTail
<1>4. Ascending(rest) /\ Before({h}, Elements(rest))
    BY <1>2, AscendingTail DEF Order
<1>5. Before(Elements(read), {h})
    BY <1>3 DEF Order, Before
<1> HIDE DEF h, rest
<1>6. Ascending(read') /\ Elements(read') \subseteq Elements(read) \cup {h}
    <2>1. CASE read' = read
        BY <2>1 DEF Order
    <2>2. CASE read' = Append(read, h)
        BY <1>2, <1>3, <1>5, <2>2, AscendingAppend, ElementsAppend DEF Order
    <2>3. QED
        BY <1>1, <2>1, <2>2
<1>7. Before(Elements(read'), Elements(rest))
    BY <1>3, <1>4, <1>6 DEF Order, Before
<1>8. ASSUME NEW t \in Attempts
      PROVE  OrderAt(t)'
    <2>1. OrderAt(t)
        BY DEF Order
    <2>2. Before(Elements(read') \cup Elements(rest), Elements(kernel[t]) \cup {rxItem[t]})
        BY <1>3, <1>6, <2>1 DEF OrderAt, Before
    <2>3. QED
        BY <1>1, <2>1, <2>2 DEF OrderAt
<1>9. QED
    BY <1>1, <1>4, <1>6, <1>7, <1>8 DEF Order

\* A datagram that arrives has a higher number than all its peer sent before.
LEMMA OrderArrive ==
    ASSUME UdpTypeOK, Order, Numbers, NEW p \in Peers, Arrive(p), UNCHANGED <<rxItem, ingress, read>>
    PROVE  Order'
<1>1. PICK what \in {"data", "empty"} : \A s \in Attempts :
         LET x == [from |-> p, n |-> arrived[p] + 1, via |-> s, what |-> what]
         IN  x \in Datagram /\ (kernel'[s] = kernel[s] \/ kernel'[s] = Append(kernel[s], x))
    BY ArriveEffect, Zenon
<1>2. ASSUME NEW s \in Attempts
      PROVE  OrderAt(s)'
    <2> DEFINE x == [from |-> p, n |-> arrived[p] + 1, via |-> s, what |-> what]
    <2>1. x \in Datagram /\ (kernel'[s] = kernel[s] \/ kernel'[s] = Append(kernel[s], x))
        BY <1>1, Zenon
    <2>2. /\ OrderAt(s) /\ kernel[s] \in Seq(Datagram) /\ rxItem[s] \in Datagram
          /\ arrived[p] \in Nat
        BY DEF Order, UdpTypeOK
    <2>3. ASSUME NEW y \in Datagram, Numbered(y)
          PROVE  Earlier(y, x)
        <3>1. y.n \in Nat
            BY DEF Datagram
        <3>2. y.from = p => y.n <= arrived[p]
            BY <2>3, UdpAssumption DEF Numbered
        <3>3. x.from = p /\ x.n = arrived[p] + 1
            OBVIOUS
        <3> HIDE DEF x
        <3>4. y.from = x.from => y.n < x.n
            BY <2>2, <3>1, <3>2, <3>3
        <3>5. QED
            BY <3>4 DEF Earlier
    <2>4. Before(Elements(read) \cup Elements(ingress) \cup Elements(kernel[s]) \cup {rxItem[s]}, {x})
        <3>1. /\ Elements(read) \subseteq Datagram /\ Elements(ingress) \subseteq Datagram
              /\ Elements(kernel[s]) \subseteq Datagram
            BY <2>2, ElementsType DEF UdpTypeOK
        <3> HIDE DEF x
        <3>2. QED
            BY <2>2, <2>3, <3>1 DEF Before, Numbers
    <2>5. x.via = s
        OBVIOUS
    <2> HIDE DEF x
    <2>6. CASE kernel'[s] = kernel[s]
        BY <2>2, <2>6 DEF OrderAt
    <2>7. CASE kernel'[s] = Append(kernel[s], x)
        <3>1. Elements(kernel'[s]) = Elements(kernel[s]) \cup {x}
            BY <2>1, <2>2, <2>7, ElementsAppend
        <3>2. Ascending(kernel'[s])
            <4>1. Ascending(kernel[s]) /\ Before(Elements(kernel[s]), {x})
                BY <2>2, <2>4 DEF OrderAt, Before
            <4>2. QED
                BY <2>1, <2>2, <2>7, <4>1, AscendingAppend
        <3>3. /\ Before(Elements(read) \cup Elements(ingress), Elements(kernel'[s]) \cup {rxItem[s]})
              /\ Before({rxItem[s]}, Elements(kernel'[s]))
            BY <2>2, <2>4, <3>1 DEF OrderAt, Before
        <3>4. QED
            BY <2>2, <2>5, <3>1, <3>2, <3>3 DEF OrderAt
    <2>8. QED
        BY <2>1, <2>6, <2>7
<1>3. QED
    BY <1>2 DEF Order

\* Every step keeps the order.
LEMMA OrderStep ==
    ASSUME UdpTypeOK, Order, Numbers, [Next]_vars
    PROVE  Order'
<1>1. CASE StaysPut
    BY <1>1 DEF StaysPut, Order, OrderAt
<1>2. QED
    BY <1>1, StepEffect, OrderDelivers, OrderArrive, OrderChanges, OrderPulls, OrderPushes

\* A datagram keeps its number and the count of its peer never falls.
LEMMA NumbersStep ==
    ASSUME UdpTypeOK, Numbers, [Next]_vars
    PROVE  Numbers'
<1>0. /\ read \in Seq(Datagram) /\ ingress \in Seq(Datagram) /\ kernel \in [Attempts -> Seq(Datagram)]
      /\ rxItem \in [Attempts -> Datagram]
    BY DEF UdpTypeOK
<1>1. CASE StaysPut
    BY <1>1 DEF StaysPut, Numbers, Numbered
<1>2. CASE Delivers
    <2>1. /\ kernel' = kernel /\ rxItem' = rxItem /\ ingress' = Tail(ingress) /\ arrived' = arrived
          /\ read' = read \/ read' = Append(read, Head(ingress))
        BY <1>2 DEF Delivers
    <2>2. /\ Head(ingress) \in Elements(ingress) /\ Elements(Tail(ingress)) \subseteq Elements(ingress)
          /\ Head(ingress) \in Datagram
        BY <1>0, <1>2, ElementsTail DEF Delivers
    <2>3. Elements(read') \subseteq Elements(read) \cup {Head(ingress)}
        <3> DEFINE h == Head(ingress)
        <3>1. Elements(Append(read, h)) = Elements(read) \cup {h}
            BY <1>0, <2>2, ElementsAppend
        <3>2. read' = read \/ read' = Append(read, h)
            BY <2>1
        <3> HIDE DEF h
        <3>3. Elements(read') \subseteq Elements(read) \cup {h}
            BY <3>1, <3>2
        <3>4. QED
            BY <3>3 DEF h
    <2>4. QED
        BY <2>1, <2>2, <2>3 DEF Numbers, Numbered
<1>3. ASSUME NEW s \in Attempts, Changes(s)
      PROVE  Numbers'
    <2>1. UNCHANGED <<kernel, arrived, ingress, read>>
        BY <1>3 DEF Changes
    <2>2. ASSUME NEW t \in Attempts
          PROVE  Numbered(rxItem[t])'
        <3>1. rxItem'[t] = rxItem[t] \/ Like(rxItem'[t], rxItem[t])
            BY <1>3 DEF Changes, Others
        <3>2. Numbered(rxItem[t])
            BY DEF Numbers
        <3>3. QED
            BY <2>1, <3>1, <3>2 DEF Numbered, Like
    <2>3. QED
        BY <2>1, <2>2 DEF Numbers, Numbered
<1>4. ASSUME NEW s \in Attempts, Pulls(s)
      PROVE  Numbers'
    <2>1. UNCHANGED <<arrived, ingress, read>>
        BY <1>4 DEF Pulls
    <2>2. ASSUME NEW t \in Attempts
          PROVE  \A x \in Elements(kernel'[t]) \cup {rxItem'[t]} : Numbered(x)'
        <3>1. CASE t = s
            <4> DEFINE h == Head(kernel[s])
                       rest == Tail(kernel[s])
            <4>1. h \in Elements(kernel[s]) /\ Elements(rest) \subseteq Elements(kernel[s])
                BY <1>0, <1>4, ElementsTail DEF Pulls
            <4>2. kernel'[s] = rest /\ Like(rxItem'[s], h)
                BY <1>4 DEF Pulls
            <4> HIDE DEF h, rest
            <4>3. QED
                BY <2>1, <3>1, <4>1, <4>2 DEF Numbers, Numbered, Like
        <3>2. CASE t # s
            BY <1>4, <2>1, <3>2 DEF Pulls, Others, Numbers, Numbered
        <3>3. QED
            BY <3>1, <3>2
    <2>3. QED
        BY <2>1, <2>2 DEF Numbers, Numbered
<1>5. ASSUME NEW s \in Attempts, Pushes(s)
      PROVE  Numbers'
    <2>1. UNCHANGED <<kernel, arrived, read>> /\ ingress' = Append(ingress, rxItem[s])
        BY <1>5 DEF Pushes
    <2>2. Elements(ingress') = Elements(ingress) \cup {rxItem[s]}
        BY <1>0, <2>1, ElementsAppend
    <2>3. ASSUME NEW t \in Attempts
          PROVE  Numbered(rxItem[t])'
        BY <1>5, <2>1 DEF Pushes, Others, Numbers, Numbered
    <2>4. QED
        BY <2>1, <2>2, <2>3 DEF Numbers, Numbered
<1>6. ASSUME NEW p \in Peers, Arrive(p), UNCHANGED <<rxItem, ingress, read>>
      PROVE  Numbers'
    <2>1. PICK what \in {"data", "empty"} : \A s \in Attempts :
             LET x == [from |-> p, n |-> arrived[p] + 1, via |-> s, what |-> what]
             IN  x \in Datagram /\ (kernel'[s] = kernel[s] \/ kernel'[s] = Append(kernel[s], x))
        BY <1>6, ArriveEffect, Zenon
    <2>2. \A q \in Peers : arrived[q] \in Nat /\ arrived'[q] \in Nat /\ arrived[q] <= arrived'[q]
        <3>1. arrived \in [Peers -> 0 .. MaxSends] /\ arrived' = [arrived EXCEPT ![p] = @ + 1]
            BY <1>6, ArriveEffect DEF UdpTypeOK
        <3>2. ASSUME NEW q \in Peers
              PROVE  /\ arrived[q] \in Nat
                     /\ arrived'[q] = arrived[q] \/ arrived'[q] = arrived[q] + 1
            BY <3>1, ConstFacts
        <3>3. QED
            BY <3>2
    <2>3. ASSUME NEW x \in Datagram, Numbered(x)
          PROVE  x.from # NoPeer => x.n <= arrived'[x.from]
        <3>1. x.n \in Nat /\ x.from \in Peers \cup {NoPeer}
            BY DEF Datagram
        <3>2. CASE x.from = NoPeer
            BY <3>2
        <3>3. CASE x.from # NoPeer
            <4>1. x.n <= arrived[x.from] /\ x.from \in Peers
                BY <2>3, <3>1, <3>3 DEF Numbered
            <4>2. x.n <= arrived'[x.from]
                BY <2>2, <3>1, <4>1
            <4>3. QED
                BY <4>2
        <3>4. QED
            BY <3>2, <3>3
    <2>4. ASSUME NEW s \in Attempts, NEW x \in Elements(kernel'[s])
          PROVE  x.from # NoPeer => x.n <= arrived'[x.from]
        <3> DEFINE y == [from |-> p, n |-> arrived[p] + 1, via |-> s, what |-> what]
        <3>1. y \in Datagram /\ (kernel'[s] = kernel[s] \/ kernel'[s] = Append(kernel[s], y))
            BY <2>1, Zenon
        <3>2. y.from # NoPeer => y.n <= arrived'[y.from]
            <4>1. arrived'[p] = arrived[p] + 1
                BY <1>6, ArriveEffect DEF UdpTypeOK
            <4>2. y.from = p /\ y.n = arrived'[p]
                BY <4>1
            <4>3. arrived'[p] <= arrived'[p]
                BY <2>2
            <4> HIDE DEF y
            <4>4. QED
                BY <4>2, <4>3
        <3> HIDE DEF y
        <3>3. x \in Elements(kernel[s]) \/ x = y
            <4>1. kernel[s] \in Seq(Datagram)
                BY <1>0
            <4>2. CASE kernel'[s] = kernel[s]
                BY <2>4, <4>2
            <4>3. CASE kernel'[s] = Append(kernel[s], y)
                <5>1. Elements(kernel'[s]) = Elements(kernel[s]) \cup {y}
                    BY <3>1, <4>1, <4>3, ElementsAppend
                <5>2. QED
                    BY <2>4, <5>1
            <4>4. QED
                BY <3>1, <4>2, <4>3
        <3>4. x \in Elements(kernel[s]) => x \in Datagram /\ Numbered(x)
            BY <1>0, ElementsType DEF Numbers
        <3>5. QED
            BY <2>3, <3>2, <3>3, <3>4
    <2>5. QED
        <3>1. Elements(read) \subseteq Datagram /\ Elements(ingress) \subseteq Datagram
            BY <1>0, ElementsType
        <3>2. \A x \in Elements(read) \cup Elements(ingress) : x.from # NoPeer => x.n <= arrived'[x.from]
            BY <2>3, <3>1 DEF Numbers
        <3>3. \A s \in Attempts : rxItem[s].from # NoPeer => rxItem[s].n <= arrived'[rxItem[s].from]
            BY <1>0, <1>6, <2>3 DEF Numbers
        <3>4. QED
            BY <1>6, <2>4, <3>2, <3>3 DEF Numbers, Numbered
<1>7. QED
    BY <1>1, <1>2, <1>3, <1>4, <1>5, <1>6, StepEffect
-----------------------------------------------------------------------------
(* The way of a datagram: who it is from. *)

\* The claim of a task sets the counterparty once; nothing else touches it.
LEMMA CounterpartyFixed ==
    ASSUME UdpTypeOK, [Next]_vars
    PROVE  mode' = mode /\ (counterparty' = counterparty \/ counterparty = NoPeer)
<1>1. CASE UNCHANGED vars \/ Build \/ Owner
    BY <1>1 DEF vars, buildVars, Build, Bind, Built, Owner, PollRead, PollFlush, PollShutdown, Drop,
                PollWrite
<1>2. ASSUME NEW p \in Peers, Arrive(p)
      PROVE  mode' = mode /\ counterparty' = counterparty
    BY <1>2 DEF Arrive, buildVars
<1>3. ASSUME NEW s \in Attempts, RxTask(s) \/ RxSocketError(s) \/ TxTask(s)
      PROVE  mode' = mode /\ (counterparty' = counterparty \/ counterparty = NoPeer)
    <2>1. CASE RxClaim(s)
        BY <2>1 DEF RxClaim, buildVars
    <2>2. CASE RxReceive(s) \/ RxDispatch(s) \/ RxAborted(s) \/ RxSocketError(s)
        BY <2>2 DEF RxReceive, RxDispatch, RxAborted, RxSocketError, buildVars
    <2>3. CASE TxTask(s)
        BY <2>3 DEF TxTask, TxTake, TxSend, TxEnd, buildVars
    <2>4. QED
        BY <1>3, <2>1, <2>2, <2>3 DEF RxTask
<1>4. QED
    BY <1>1, <1>2, <1>3 DEF Next

\* Mine in the state a step leads to.
MineNext(x) == x.what = "error" \/ (x.from \in Peers /\ (mode' # "Accept" => x.from = counterparty'))

\* So a datagram that passed the claim does so for good.
LEMMA MineKept ==
    ASSUME UdpTypeOK, [Next]_vars
    PROVE  \A x : Mine(x) => MineNext(x)
BY CounterpartyFixed, UdpAssumption DEF Mine, MineNext

\* The parts of Senders about one socket, and about the queue and the reader.
KernelFrom(s) == \A x \in Elements(kernel[s]) : x.from \in Peers /\ x.what \in {"data", "empty"}
ClaimFrom(s) == rxAt[s] = "claim" => rxItem[s].from \in Peers /\ rxItem[s].what = "data"
DispatchFrom(s) == rxAt[s] = "dispatch" => Mine(rxItem[s])

\* Senders in the next state, from its parts.
LEMMA SendersParts ==
    ASSUME \A s \in Attempts : KernelFrom(s)', \A s \in Attempts : ClaimFrom(s)',
           \A s \in Attempts : rxAt'[s] = "dispatch" => MineNext(rxItem'[s]),
           \A x \in Elements(ingress') : MineNext(x),
           \A x \in Elements(read') : x.what # "error" /\ MineNext(x)
    PROVE  Senders'
BY DEF Senders, KernelFrom, ClaimFrom, MineNext, Mine

\* A step that moves no datagram.
LEMMA SendersQuiet ==
    ASSUME UdpTypeOK, Senders, [Next]_vars, UNCHANGED <<kernel, rxItem, ingress, read>>,
           \A s \in Attempts : rxAt'[s] = rxAt[s] \/ rxAt'[s] = "recv"
    PROVE  Senders'
<1>1. \A s \in Attempts : KernelFrom(s)' /\ ClaimFrom(s)'
    BY DEF Senders, KernelFrom, ClaimFrom
<1>2. \A s \in Attempts : rxAt'[s] = "dispatch" => MineNext(rxItem'[s])
    BY MineKept DEF Senders
<1>3. /\ \A x \in Elements(ingress') : MineNext(x)
      /\ \A x \in Elements(read') : x.what # "error" /\ MineNext(x)
    BY MineKept DEF Senders
<1>4. QED
    BY <1>1, <1>2, <1>3, SendersParts

\* The receiving tasks let only what is theirs through.
LEMMA SendersRx ==
    ASSUME UdpTypeOK, Senders, [Next]_vars, NEW s \in Attempts, RxTask(s) \/ RxSocketError(s)
    PROVE  Senders'
<1>0. /\ read' = read /\ kernel \in [Attempts -> Seq(Datagram)] /\ ingress \in Seq(Datagram)
      /\ rxItem[s] \in Datagram
    BY DEF UdpTypeOK, RxTask, RxReceive, RxClaim, RxDispatch, RxAborted, RxSocketError, readVars
<1>1. \A x \in Elements(read') : x.what # "error" /\ MineNext(x)
    BY <1>0, MineKept DEF Senders
<1>2. ASSUME NEW from, NEW to, NEW item, RxStep(s, from, to, item),
             to = "claim" => item.from \in Peers /\ item.what = "data",
             to = "dispatch" => MineNext(item)
      PROVE  /\ \A t \in Attempts : ClaimFrom(t)'
             /\ \A t \in Attempts : rxAt'[t] = "dispatch" => MineNext(rxItem'[t])
    <2>1. /\ rxAt'[s] = to /\ rxItem'[s] = item
          /\ \A t \in Attempts \ {s} : rxAt'[t] = rxAt[t] /\ rxItem'[t] = rxItem[t]
        BY <1>2, RxStepEffect
    <2>2. \A t \in Attempts \ {s} : rxAt'[t] = "dispatch" => MineNext(rxItem'[t])
        BY <2>1, MineKept DEF Senders
    <2>3. \A t \in Attempts : ClaimFrom(t)'
        BY <1>2, <2>1 DEF Senders, ClaimFrom
    <2>4. QED
        BY <1>2, <2>1, <2>2, <2>3
<1>3. CASE RxReceive(s)
    <2> DEFINE h == Head(kernel[s])
    <2>1. /\ kernel[s] # <<>> /\ kernel'[s] = Tail(kernel[s]) /\ ingress' = ingress
          /\ \A t \in Attempts \ {s} : kernel'[t] = kernel[t]
        BY <1>0, <1>3 DEF RxReceive
    <2>2. h \in Elements(kernel[s]) /\ Elements(kernel'[s]) \subseteq Elements(kernel[s])
        BY <1>0, <2>1, ElementsTail
    <2>3. h.what = "empty" => RxStep(s, "recv", "end", Nothing)
        BY <1>3 DEF RxReceive
    <2>4. h.what # "empty" => RxStep(s, "recv", "claim", h)
        BY <1>3 DEF RxReceive
    <2> HIDE DEF h
    <2>5. h.from \in Peers /\ h.what \in {"data", "empty"}
        BY <2>2 DEF Senders
    <2>6. /\ \A t \in Attempts : ClaimFrom(t)'
          /\ \A t \in Attempts : rxAt'[t] = "dispatch" => MineNext(rxItem'[t])
        BY <1>2, <2>3, <2>4, <2>5
    <2>7. \A t \in Attempts : KernelFrom(t)'
        BY <2>1, <2>2 DEF Senders, KernelFrom
    <2>8. \A x \in Elements(ingress') : MineNext(x)
        BY <2>1, MineKept DEF Senders
    <2>9. QED
        BY <1>1, <2>6, <2>7, <2>8, SendersParts
<1>4. CASE ~RxReceive(s)
    <2>1. kernel' = kernel
        BY <1>4 DEF RxTask, RxReceive, RxClaim, RxDispatch, RxAborted, RxSocketError, netVars
    <2>2. \A t \in Attempts : KernelFrom(t)'
        BY <2>1 DEF Senders, KernelFrom
    <2>3. PICK from, to, item :
              /\ RxStep(s, from, to, item)
              /\ to = "claim" => item.from \in Peers /\ item.what = "data"
              /\ to = "dispatch" => MineNext(item)
        <3>1. CASE RxSocketError(s)
            <4> DEFINE failure == [Nothing EXCEPT !.via = s, !.what = "error"]
            <4>1. RxStep(s, "recv", "dispatch", failure)
                BY <3>1 DEF RxSocketError
            <4>2. failure.what = "error"
                BY NothingType
            <4> HIDE DEF failure
            <4>3. QED
                BY <4>1, <4>2 DEF MineNext
        <3>2. CASE RxClaim(s)
            <4> DEFINE d == rxItem[s]
                       failure == [d EXCEPT !.what = "error"]
            <4>1. /\ counterparty' = (IF counterparty = NoPeer THEN d.from ELSE counterparty)
                  /\ rxAt[s] = "claim" /\ mode' = mode
                  /\ \/ /\ d.from = counterparty' \/ mode = "Accept"
                        /\ RxStep(s, "claim", "dispatch", d)
                     \/ RxStep(s, "claim", "recv", Nothing)
                     \/ RxStep(s, "claim", "dispatch", failure)
                BY <3>2 DEF RxClaim, RxStep, buildVars
            <4>2. failure.what = "error"
                BY <1>0 DEF Datagram
            <4>3. d.from \in Peers
                BY <4>1 DEF Senders
            <4> HIDE DEF d, failure
            <4>4. MineNext(failure) /\ (d.from = counterparty' \/ mode = "Accept" => MineNext(d))
                BY <4>1, <4>2, <4>3 DEF MineNext
            <4>5. QED
                BY <4>1, <4>4
        <3>3. CASE RxDispatch(s)
            <4>1. \/ RxStep(s, "dispatch", "end", Nothing)
                  \/ RxStep(s, "dispatch", "recv", Nothing)
                BY <3>3 DEF RxDispatch
            <4>2. QED
                BY <4>1
        <3>4. CASE RxAborted(s)
            BY <3>4 DEF RxAborted
        <3>5. QED
            BY <1>4, <3>1, <3>2, <3>3, <3>4 DEF RxTask
    <2>4. /\ \A t \in Attempts : ClaimFrom(t)'
          /\ \A t \in Attempts : rxAt'[t] = "dispatch" => MineNext(rxItem'[t])
        BY <1>2, <2>3, Zenon
    <2>5. \A x \in Elements(ingress') : MineNext(x)
        <3>1. CASE RxDispatch(s)
            <4>1. /\ rxAt[s] = "dispatch"
                  /\ ingress' = ingress \/ ingress' = Append(ingress, rxItem[s])
                BY <3>1 DEF RxDispatch, RxStep
            <4>2. Elements(Append(ingress, rxItem[s])) = Elements(ingress) \cup {rxItem[s]}
                BY <1>0, ElementsAppend
            <4>3. \A x \in Elements(ingress) \cup {rxItem[s]} : MineNext(x)
                BY <4>1, MineKept DEF Senders
            <4>4. QED
                BY <4>1, <4>2, <4>3
        <3>2. CASE ~RxDispatch(s)
            <4>1. ingress' = ingress
                BY <3>2 DEF RxTask, RxReceive, RxClaim, RxAborted, RxSocketError
            <4>2. QED
                BY <4>1, MineKept DEF Senders
        <3>3. QED
            BY <3>1, <3>2
    <2>6. QED
        BY <1>1, <2>2, <2>4, <2>5, SendersParts
<1>5. QED
    BY <1>3, <1>4

\* Every step keeps the senders right.
LEMMA SendersStep ==
    ASSUME UdpTypeOK, Senders, [Next]_vars
    PROVE  Senders'
<1>1. CASE UNCHANGED vars
    <2>1. UNCHANGED <<kernel, rxItem, ingress, read, rxAt>>
        BY <1>1 DEF vars, netVars, rxVars, readVars
    <2>2. QED
        BY <2>1, SendersQuiet
<1>2. CASE Build
    <2>1. UNCHANGED <<kernel, rxItem, ingress, read>>
        BY <1>2 DEF Build, Bind, Built, netVars, rxVars, readVars
    <2>2. \A s \in Attempts : rxAt'[s] = rxAt[s] \/ rxAt'[s] = "recv"
        BY <1>2 DEF Build, Bind, Built, rxVars, UdpTypeOK
    <2>3. QED
        BY <2>1, <2>2, SendersQuiet
<1>3. CASE PollRead
    <2>0. ingress \in Seq(Datagram) /\ read \in Seq(Datagram) /\ kernel' = kernel /\ rxItem' = rxItem
          /\ rxAt' = rxAt
        BY <1>3 DEF UdpTypeOK, PollRead, netVars
    <2>1. CASE ingress # <<>>
        <3> DEFINE h == Head(ingress)
        <3>1. /\ ingress' = Tail(ingress)
              /\ read' = read \/ (h.what # "error" /\ read' = Append(read, h))
            BY <1>3, <2>1 DEF PollRead
        <3>2. /\ h \in Datagram /\ h \in Elements(ingress)
              /\ Elements(Tail(ingress)) \subseteq Elements(ingress)
            BY <2>0, <2>1, ElementsTail
        <3> HIDE DEF h
        <3>3. Elements(Append(read, h)) = Elements(read) \cup {h}
            BY <2>0, <3>2, ElementsAppend
        <3>4. MineNext(h) /\ \A x \in Elements(read) : x.what # "error" /\ MineNext(x)
            BY <3>2, MineKept DEF Senders
        <3>5. \A x \in Elements(read') : x.what # "error" /\ MineNext(x)
            BY <3>1, <3>3, <3>4
        <3>6. \A x \in Elements(ingress') : MineNext(x)
            BY <3>1, <3>2, MineKept DEF Senders
        <3>7. \A s \in Attempts : KernelFrom(s)' /\ ClaimFrom(s)'
            BY <2>0 DEF Senders, KernelFrom, ClaimFrom
        <3>8. \A s \in Attempts : rxAt'[s] = "dispatch" => MineNext(rxItem'[s])
            BY <2>0, MineKept DEF Senders
        <3>9. QED
            BY <3>5, <3>6, <3>7, <3>8, SendersParts
    <2>2. CASE ~(ingress # <<>>)
        <3>1. ingress' = ingress /\ read' = read
            BY <1>3, <2>2 DEF PollRead
        <3>2. QED
            BY <2>0, <3>1, SendersQuiet
    <2>3. QED
        BY <2>1, <2>2
<1>4. CASE PollFlush \/ PollShutdown \/ Drop \/ \E d \in 1 .. MaxWrites : PollWrite(d)
    <2>1. UNCHANGED <<kernel, rxItem, ingress, read, rxAt>>
        BY <1>4 DEF PollFlush, PollShutdown, Drop, PollWrite, netVars, rxVars, readVars
    <2>2. QED
        BY <2>1, SendersQuiet
<1>5. ASSUME NEW p \in Peers, Arrive(p)
      PROVE  Senders'
    <2>1. PICK what \in {"data", "empty"} : \A s \in Attempts :
             LET x == [from |-> p, n |-> arrived[p] + 1, via |-> s, what |-> what]
             IN  x \in Datagram /\ (kernel'[s] = kernel[s] \/ kernel'[s] = Append(kernel[s], x))
        BY <1>5, ArriveEffect, Zenon
    <2>2. ASSUME NEW s \in Attempts
          PROVE  KernelFrom(s)'
        <3> DEFINE x == [from |-> p, n |-> arrived[p] + 1, via |-> s, what |-> what]
        <3>1. x \in Datagram /\ (kernel'[s] = kernel[s] \/ kernel'[s] = Append(kernel[s], x))
            BY <2>1, Zenon
        <3>2. x.from \in Peers /\ x.what \in {"data", "empty"}
            OBVIOUS
        <3> HIDE DEF x
        <3>3. Elements(Append(kernel[s], x)) = Elements(kernel[s]) \cup {x}
            BY <3>1, ElementsAppend DEF UdpTypeOK
        <3>4. QED
            BY <3>1, <3>2, <3>3 DEF Senders, KernelFrom
    <2>3. UNCHANGED <<rxAt, rxItem, ingress, read>>
        BY <1>5 DEF Arrive, rxVars, readVars
    <2>4. \A s \in Attempts : ClaimFrom(s)'
        BY <2>3 DEF Senders, ClaimFrom
    <2>5. /\ \A s \in Attempts : rxAt'[s] = "dispatch" => MineNext(rxItem'[s])
          /\ \A x \in Elements(ingress') : MineNext(x)
          /\ \A x \in Elements(read') : x.what # "error" /\ MineNext(x)
        BY <2>3, MineKept DEF Senders
    <2>6. QED
        BY <2>2, <2>4, <2>5, SendersParts
<1>6. ASSUME NEW s \in Attempts, TxTask(s)
      PROVE  Senders'
    <2>1. UNCHANGED <<kernel, rxItem, ingress, read, rxAt>>
        BY <1>6 DEF TxTask, TxTake, TxSend, TxEnd, netVars, rxVars, readVars
    <2>2. QED
        BY <2>1, SendersQuiet
<1>7. QED
    BY <1>1, <1>2, <1>3, <1>4, <1>5, <1>6, SendersRx DEF Next, Owner

\* send_to is called with the counterparty of that moment, and it stays the counterparty.
LEMMA ReceiversStep ==
    ASSUME UdpTypeOK, Receivers, [Next]_vars
    PROVE  Receivers'
<1> DEFINE Calls == [by : Attempts, to : Peers \cup {NoPeer}, data : Nat]
<1>0. sent \in Seq(Calls) /\ txItem \in [Attempts -> Nat] /\ counterparty \in Peers \cup {NoPeer}
    BY DEF UdpTypeOK
<1>1. CASE sent' = sent
    <2>1. Elements(sent) # {} => counterparty' = counterparty /\ counterparty # NoPeer
        BY CounterpartyFixed DEF Receivers
    <2>2. QED
        BY <1>1, <2>1 DEF Receivers
<1>2. ASSUME NEW s \in Attempts, TxSend(s), counterparty # NoPeer
      PROVE  Receivers'
    <2> DEFINE call == [by |-> s, to |-> counterparty, data |-> txItem[s]]
    <2>1. sent' = Append(sent, call) /\ counterparty' = counterparty
        BY <1>2 DEF TxSend
    <2>2. call \in Calls /\ call.to = counterparty
        BY <1>0
    <2> HIDE DEF call, Calls
    <2>3. Elements(sent') = Elements(sent) \cup {call}
        BY <1>0, <2>1, <2>2, ElementsAppend
    <2>4. QED
        BY <1>2, <2>1, <2>2, <2>3 DEF Receivers
<1>3. sent' = sent \/ \E s \in Attempts : TxSend(s) /\ counterparty # NoPeer
    <2>1. CASE UNCHANGED vars \/ Build \/ Owner
        BY <2>1 DEF vars, Build, Bind, Built, Owner, PollRead, PollFlush, PollShutdown, Drop,
                    PollWrite, txVars
    <2>2. ASSUME NEW p \in Peers, Arrive(p)
          PROVE  sent' = sent
        BY <2>2 DEF Arrive, txVars
    <2>3. ASSUME NEW s \in Attempts, RxTask(s) \/ RxSocketError(s)
          PROVE  sent' = sent
        BY <2>3 DEF RxTask, RxReceive, RxClaim, RxDispatch, RxAborted, RxSocketError, txVars
    <2>4. ASSUME NEW s \in Attempts, TxTask(s)
          PROVE  sent' = sent \/ (TxSend(s) /\ counterparty # NoPeer)
        BY <2>4 DEF TxTask, TxTake, TxEnd, TxSend
    <2>5. QED
        BY <2>1, <2>2, <2>3, <2>4 DEF Next
<1>4. QED
    BY <1>1, <1>2, <1>3
-----------------------------------------------------------------------------
(* The way of a buffer: what poll_write reports. *)

\* What the flushes do to a buffer that waits: it is reported lost, or goes with the sink.
Flushes ==
    /\ waiting' = 0 /\ (refused \cup {waiting}) \ {0} \subseteq refused'
    /\ UNCHANGED <<offered, flushing, reported, egress, accepted>> /\ phase # "dropped"
Drops == /\ waiting' = 0 /\ phase' = "dropped"
         /\ UNCHANGED <<offered, flushing, reported, refused, egress, accepted>>
WritesNothing ==
    /\ UNCHANGED <<offered, flushing, reported, refused, egress, accepted, waiting>>
    /\ phase' # "dropped" => phase # "dropped"

\* A step writes, flushes, drops the stream, takes from the queue or leaves the buffers alone.
LEMMA BufferEffect ==
    ASSUME UdpTypeOK, [Next]_vars
    PROVE  \/ WritesNothing \/ Flushes \/ Drops
           \/ \E d \in 1 .. MaxWrites : PollWrite(d)
           \/ \E s \in Attempts : TxTake(s)
<1>1. CASE UNCHANGED vars \/ Build \/ PollRead
    BY <1>1 DEF vars, buildVars, writeVars, bufferVars, Build, Bind, Built, PollRead, WritesNothing
<1>2. CASE PollFlush
    BY <1>2 DEF PollFlush, Owned, buildVars, Flushes
<1>3. CASE PollShutdown
    BY <1>3 DEF PollShutdown, Owned, Flushes
<1>4. CASE Drop
    BY <1>4 DEF Drop, Drops, writeVars
<1>5. ASSUME NEW p \in Peers, Arrive(p)
      PROVE  WritesNothing
    BY <1>5 DEF Arrive, buildVars, writeVars, bufferVars, WritesNothing
<1>6. ASSUME NEW s \in Attempts, RxTask(s) \/ RxSocketError(s)
      PROVE  WritesNothing
    BY <1>6 DEF RxTask, RxReceive, RxClaim, RxDispatch, RxAborted, RxSocketError, buildVars, writeVars,
                bufferVars, WritesNothing
<1>7. ASSUME NEW s \in Attempts, TxTask(s)
      PROVE  TxTake(s) \/ WritesNothing
    BY <1>7 DEF TxTask, TxSend, TxEnd, buildVars, writeVars, bufferVars, WritesNothing
<1>8. QED
    BY <1>1, <1>2, <1>3, <1>4, <1>5, <1>6, <1>7 DEF Next, Owner

\* Every step keeps the reports of poll_write true.
LEMMA WritesStep ==
    ASSUME UdpTypeOK, Writes, [Next]_vars
    PROVE  Writes'
<1>0. /\ egress \in Seq(Nat) /\ accepted \in Seq(Nat) /\ reported \in Seq(Nat)
      /\ waiting \in Nat /\ flushing \in Nat /\ offered \in Nat /\ flushing <= offered
      /\ waiting = 0 \/ waiting = flushing
    BY WriterTypes
<1>1. Elements(accepted) \subseteq Nat /\ Elements(reported) \subseteq Nat
    BY <1>0, ElementsType
<1>2. CASE WritesNothing
    BY <1>2 DEF WritesNothing, Writes
<1>3. CASE Flushes
    <2>1. flushing # 0 /\ waiting # 0 => flushing \in refused'
        BY <1>0, <1>3 DEF Flushes
    <2>2. \A x \in refused : x # 0 => x \in refused'
        BY <1>3 DEF Flushes
    <2>3. UNCHANGED <<offered, flushing, reported, accepted>> /\ waiting' = 0 /\ phase # "dropped"
        BY <1>3 DEF Flushes
    <2>4. flushing # 0 => flushing \in Elements(accepted) \cup refused'
        BY <2>1, <2>2, <2>3 DEF Writes
    <2>5. Elements(reported) \subseteq Elements(accepted) \cup refused'
        BY <2>2 DEF Writes
    <2>6. QED
        BY <2>3, <2>4, <2>5 DEF Writes
<1>4. CASE Drops
    BY <1>4 DEF Drops, Writes
<1>5. ASSUME NEW s \in Attempts, TxTake(s)
      PROVE  Writes'
    <2>1. UNCHANGED <<offered, flushing, reported, refused, phase>>
        BY <1>5 DEF TxTake, writeVars, buildVars
    <2>2. CASE waiting = 0
        <3>1. accepted' = accepted /\ waiting' = waiting
            BY <1>5, <2>2, TakeEffect
        <3>2. QED
            BY <2>1, <3>1 DEF Writes
    <2>3. CASE waiting # 0
        <3>1. waiting' = 0 /\ Elements(accepted') = Elements(accepted) \cup {waiting}
            <4>1. accepted' = Append(accepted, waiting) /\ accepted \in Seq(Nat) /\ waiting \in Nat
                BY <1>5, <2>3, TakeEffect
            <4>2. Elements(accepted') = Elements(accepted) \cup {waiting}
                BY <4>1, ElementsAppend
            <4>3. QED
                BY <1>5, <4>2, TakeEffect
        <3>2. waiting = flushing
            BY <1>0, <2>3
        <3>3. \A x \in Elements(accepted') : x # 0 /\ x <= offered
            BY <1>0, <2>3, <3>1, <3>2 DEF Writes
        <3>4. QED
            BY <2>1, <3>1, <3>2, <3>3 DEF Writes
    <2>4. QED
        BY <2>2, <2>3
<1>6. ASSUME NEW d \in 1 .. MaxWrites, PollWrite(d)
      PROVE  Writes'
    <2>0. /\ d \in Nat /\ d # 0 /\ offered' \in Nat /\ offered <= offered' /\ d <= offered'
          /\ phase # "dropped"
        BY <1>6, WriteEffect
    <2>1. ASSUME NEW x \in Nat, x <= offered
          PROVE  x <= offered' /\ x < offered + 1
        BY <1>0, <2>0, <2>1
    <2>2. CASE WriteRefused(d)
        <3>1. /\ flushing = 0 /\ flushing' = 0 /\ waiting = 0 /\ waiting' = 0
              /\ UNCHANGED <<reported, accepted>> /\ refused' = refused \cup {d}
            BY <1>0, <2>2 DEF WriteRefused
        <3>2. QED
            BY <1>1, <2>1, <3>1 DEF Writes
    <2>3. CASE WriteQueued(d)
        <3>1. /\ flushing = 0 /\ flushing' = 0 /\ waiting = 0 /\ waiting' = 0 /\ refused' = refused
              /\ reported' = Append(reported, d) /\ accepted' = Append(accepted, d) /\ d = offered + 1
            BY <1>0, <2>3 DEF WriteQueued
        <3>2. /\ Elements(reported') = Elements(reported) \cup {d}
              /\ Elements(accepted') = Elements(accepted) \cup {d}
            BY <1>0, <2>0, <3>1, ElementsAppend
        <3>3. \A x \in Elements(reported) : x < d
            BY <1>1, <2>1, <3>1 DEF Writes
        <3>4. Rising(reported')
            BY <1>0, <2>0, <3>1, <3>3, RisingAppend DEF Writes
        <3>5. \A x \in Elements(reported') \cup Elements(accepted') : x # 0 /\ x <= offered'
            BY <1>1, <2>0, <2>1, <3>2 DEF Writes
        <3>6. QED
            BY <3>1, <3>2, <3>4, <3>5 DEF Writes
    <2>4. CASE WriteWaits(d)
        <3>1. /\ flushing = 0 /\ flushing' = d /\ waiting' = d /\ d = offered + 1
              /\ UNCHANGED <<reported, accepted, refused>>
            BY <2>4 DEF WriteWaits
        <3>2. \A x \in Elements(reported) \cup Elements(accepted) : x # 0 /\ x <= offered' /\ x < d
            BY <1>1, <2>1, <3>1 DEF Writes
        <3>3. Elements(accepted) \subseteq Elements(reported)
            BY <3>1, <3>2 DEF Writes
        <3>4. QED
            BY <2>0, <3>1, <3>2, <3>3 DEF Writes
    <2>5. CASE WriteReported
        <3>1. /\ flushing # 0 /\ waiting = 0 /\ waiting' = 0 /\ flushing' = 0
              /\ reported' = Append(reported, flushing) /\ UNCHANGED <<refused, accepted>>
            BY <2>5 DEF WriteReported
        <3>2. Elements(reported') = Elements(reported) \cup {flushing}
            <4>1. reported' = Append(reported, flushing) /\ reported \in Seq(Nat) /\ flushing \in Nat
                BY <1>0, <3>1
            <4>2. QED
                BY <4>1, ElementsAppend
        <3>3. Rising(reported')
            BY <1>0, <3>1, RisingAppend DEF Writes
        <3>4. \A x \in Elements(reported') \cup Elements(accepted') : x # 0 /\ x <= offered'
            BY <1>0, <1>1, <2>1, <3>1, <3>2 DEF Writes
        <3>5. QED
            BY <2>0, <3>1, <3>2, <3>3, <3>4 DEF Writes
    <2>6. CASE WriteLost
        <3>1. /\ flushing # 0 /\ waiting # 0 /\ waiting' = 0 /\ flushing' = 0
              /\ refused' = refused \cup {waiting} /\ UNCHANGED <<reported, accepted>>
            BY <2>6 DEF WriteLost
        <3>2. flushing \notin Elements(accepted)
            BY <1>0, <3>1 DEF Writes
        <3>3. \A x \in Elements(reported) \cup Elements(accepted) : x <= offered'
            BY <1>1, <2>1 DEF Writes
        <3>4. QED
            BY <3>1, <3>2, <3>3 DEF Writes
    <2>7. QED
        BY <1>6, <2>2, <2>3, <2>4, <2>5, <2>6, WriteEffect
<1>7. QED
    BY <1>2, <1>3, <1>4, <1>5, <1>6, BufferEffect
-----------------------------------------------------------------------------
(* The way of a buffer: what is sent. *)

\* A step that neither fills nor empties the queue and sends nothing.
LEMMA SendsQuiet ==
    ASSUME UdpTypeOK, Sends, UNCHANGED <<egress, accepted, sent>>,
           \A s \in Attempts : \/ txAt'[s] = txAt[s] /\ txItem'[s] = txItem[s]
                               \/ txAt'[s] # "send"
    PROVE  Sends'
<1>1. ASSUME NEW s \in Attempts
      PROVE  Holds(s)'
    BY DEF Sends, Holds
<1>2. SentInOrder' /\ SentBefore'
    BY DEF Sends, SentInOrder, SentBefore
<1>3. QED
    BY <1>1, <1>2 DEF Sends

\* A step of a sending task, as the other tasks see it.
LEMMA TxStepEffect ==
    ASSUME UdpTypeOK, NEW s \in Attempts, NEW from, NEW to, NEW item, TxStep(s, from, to, item)
    PROVE  /\ txAt[s] = from /\ txAt'[s] = to /\ txItem'[s] = item
           /\ \A t \in Attempts \ {s} : txAt'[t] = txAt[t] /\ txItem'[t] = txItem[t]
BY DEF TxStep, UdpTypeOK

\* A new buffer goes behind all that were accepted before.
LEMMA SendsQueued ==
    ASSUME UdpTypeOK, Writes, Sends, NEW d \in 1 .. MaxWrites, WriteQueued(d),
           UNCHANGED <<sent, txAt, txItem>>
    PROVE  Sends'
<1>1. /\ egress' = Append(egress, d) /\ accepted' = Append(accepted, d) /\ d = offered + 1
      /\ d \in Nat
    BY DEF WriteQueued
<1>2. egress \in Seq(Nat) /\ accepted \in Seq(Nat) /\ offered \in Nat
    BY WriterTypes
<1>3. /\ Elements(egress') = Elements(egress) \cup {d}
      /\ Elements(accepted') = Elements(accepted) \cup {d}
    BY <1>1, <1>2, ElementsAppend
<1>4. \A x \in Elements(accepted) : x < d
    <2>1. Elements(accepted) \subseteq Nat
        BY <1>2, ElementsType
    <2>2. QED
        BY <1>1, <1>2, <2>1 DEF Writes
<1>5. Rising(egress')
    BY <1>1, <1>2, <1>4, RisingAppend DEF Sends
<1>6. SentBefore'
    BY <1>3, <1>4 DEF Sends, SentBefore
<1>7. ASSUME NEW s \in Attempts
      PROVE  Holds(s)'
    BY <1>3, <1>4 DEF Sends, Holds
<1>8. QED
    BY <1>3, <1>5, <1>6, <1>7 DEF Sends, SentInOrder

\* A task takes the oldest buffer; one that waits moves up behind the others.
LEMMA SendsTake ==
    ASSUME UdpTypeOK, Writes, Sends, NEW s \in Attempts, TxTake(s)
    PROVE  Sends'
<1> DEFINE h == Head(egress)
           rest == Tail(egress)
<1>1. egress \in Seq(Nat) /\ egress # <<>> /\ accepted \in Seq(Nat) /\ waiting \in Nat /\ sent' = sent
    BY TakeEffect DEF TxTake
<1>2. /\ h \in Nat /\ rest \in Seq(Nat) /\ h \in Elements(egress)
      /\ Elements(rest) \subseteq Elements(egress)
    BY <1>1, ElementsTail
<1>3. Rising(rest) /\ \A y \in Elements(rest) : h < y
    BY <1>1, RisingTail DEF Sends
<1>4. /\ txAt[s] = "recv" /\ txAt'[s] = "send" /\ txItem'[s] = h
      /\ \A t \in Attempts \ {s} : txAt'[t] = txAt[t] /\ txItem'[t] = txItem[t]
    BY TxStepEffect DEF TxTake
<1>5. \/ waiting = 0 /\ egress' = rest /\ accepted' = accepted
      \/ waiting # 0 /\ egress' = Append(rest, waiting) /\ accepted' = Append(accepted, waiting)
    BY TakeEffect
<1> HIDE DEF h, rest
<1>6. waiting # 0 => \A x \in Elements(accepted) : x < waiting
    BY DEF Writes
<1>7. /\ Rising(egress') /\ Elements(egress') \subseteq Elements(accepted')
      /\ Elements(accepted) \subseteq Elements(accepted')
      /\ \A y \in Elements(egress') : y \in Elements(rest) \/ (waiting # 0 /\ y = waiting)
    <2>0. Elements(rest) \subseteq Elements(accepted)
        BY <1>2 DEF Sends
    <2>1. CASE waiting = 0
        BY <1>3, <1>5, <2>0, <2>1
    <2>2. CASE waiting # 0
        <3>1. egress' = Append(rest, waiting) /\ accepted' = Append(accepted, waiting)
            BY <1>5, <2>2
        <3>2. Elements(egress') = Elements(rest) \cup {waiting}
            <4>1. rest \in Seq(Nat) /\ waiting \in Nat /\ egress' = Append(rest, waiting)
                BY <1>1, <1>2, <3>1
            <4>2. Elements(Append(rest, waiting)) = Elements(rest) \cup {waiting}
                BY <4>1, ElementsAppend
            <4>3. QED
                BY <4>1, <4>2
        <3>3. Elements(accepted') = Elements(accepted) \cup {waiting}
            <4>1. accepted \in Seq(Nat) /\ waiting \in Nat /\ accepted' = Append(accepted, waiting)
                BY <1>1, <3>1
            <4>2. QED
                BY <4>1, ElementsAppend
        <3>4. \A y \in Elements(rest) : y < waiting
            BY <1>6, <2>0, <2>2
        <3>5. Rising(egress')
            BY <1>1, <1>2, <1>3, <3>1, <3>4, RisingAppend
        <3>6. QED
            BY <2>0, <2>2, <3>2, <3>3, <3>5
    <2>3. QED
        BY <2>1, <2>2
<1>8. ASSUME NEW x \in Elements(accepted), \A y \in Elements(rest) : x < y
      PROVE  \A y \in Elements(egress') : x < y
    BY <1>6, <1>7, <1>8
<1>9. h \in Elements(accepted)
    BY <1>2 DEF Sends
<1>10. SentBefore'
    <2>1. ASSUME NEW x \in Elements(sent)
          PROVE  x.data \in Elements(accepted') /\ \A y \in Elements(egress') : x.data < y
        <3>1. x.data \in Elements(accepted) /\ \A y \in Elements(rest) : x.data < y
            BY <1>2 DEF Sends, SentBefore
        <3>2. QED
            BY <1>7, <1>8, <3>1
    <2>2. QED
        BY <1>1, <2>1 DEF SentBefore
<1>11. \A x \in Elements(sent) : x.data < h
    BY <1>2 DEF Sends, SentBefore
<1>12. Elements(accepted) \subseteq Nat
    BY <1>1, ElementsType
<1>13. ASSUME NEW t \in Attempts, t # s, txAt[t] = "send"
       PROVE  txItem[t] \in Nat /\ txItem[t] < h
    BY <1>2, <1>12, <1>13 DEF Sends, Holds
<1>14. ASSUME NEW t \in Attempts
       PROVE  Holds(t)'
    <2>1. CASE t = s
        <3>1. \A y \in Elements(egress') : h < y
            BY <1>3, <1>8, <1>9
        <3>2. \A x \in Elements(sent) : x.data # h /\ x.data < h
            <4>1. \A x \in Elements(sent) : x.data \in Nat
                BY <1>12 DEF Sends, SentBefore
            <4>2. ASSUME NEW x \in Elements(sent)
                  PROVE  x.data # h /\ x.data < h
                <5>1. x.data \in Nat /\ x.data < h /\ h \in Nat
                    BY <1>2, <1>11, <4>1
                <5>2. QED
                    BY <5>1
            <4>3. QED
                BY <4>2
        <3>3. \A u \in Attempts : txAt'[u] = "send" /\ txItem'[u] = h => u = s
            BY <1>2, <1>4, <1>13
        <3>4. QED
            BY <1>1, <1>4, <1>7, <1>9, <2>1, <3>1, <3>2, <3>3 DEF Holds
    <2>2. CASE t # s /\ txAt[t] = "send"
        <3>1. txAt'[t] = "send" /\ txItem'[t] = txItem[t] /\ Holds(t)
            BY <1>4, <2>2 DEF Sends
        <3>2. \A y \in Elements(egress') : txItem[t] < y
            BY <1>2, <1>8, <2>2, <3>1 DEF Holds
        <3>3. \A u \in Attempts : txAt'[u] = "send" /\ txItem'[u] = txItem[t] => u = t
            BY <1>2, <1>4, <1>13, <2>2, <3>1 DEF Holds
        <3>4. QED
            BY <1>1, <1>7, <2>2, <3>1, <3>2, <3>3 DEF Holds
    <2>3. CASE t # s /\ txAt[t] # "send"
        BY <1>4, <2>3 DEF Holds
    <2>4. QED
        BY <2>1, <2>2, <2>3
<1>15. SentInOrder'
    BY <1>1 DEF Sends, SentInOrder
<1>16. QED
    BY <1>7, <1>10, <1>14, <1>15 DEF Sends

\* A task sends what it holds; it was sent by nobody else.
LEMMA SendsSend ==
    ASSUME UdpTypeOK, Sends, NEW s \in Attempts, TxSend(s), counterparty # NoPeer
    PROVE  Sends'
<1> DEFINE call == [by |-> s, to |-> counterparty, data |-> txItem[s]]
           Calls == [by : Attempts, to : Peers \cup {NoPeer}, data : Nat]
           n == txItem[s]
<1>1. sent' = Append(sent, call) /\ UNCHANGED <<egress, accepted>> /\ TxStep(s, "send", "recv", 0)
    BY DEF TxSend, bufferVars
<1>2. call \in Calls /\ call.data = n /\ call.by = s /\ sent \in Seq(Calls)
    BY DEF UdpTypeOK
<1>3. /\ txAt[s] = "send" /\ txAt'[s] = "recv"
      /\ \A t \in Attempts \ {s} : txAt'[t] = txAt[t] /\ txItem'[t] = txItem[t]
    BY <1>1, TxStepEffect
<1>4. /\ n \in Elements(accepted) /\ \A y \in Elements(egress) : n < y
      /\ \A x \in Elements(sent) : x.data # n /\ (x.by = s => x.data < n)
      /\ \A t \in Attempts : txAt[t] = "send" /\ txItem[t] = n => t = s
    BY <1>3 DEF Sends, Holds
<1>5. /\ Len(sent) \in Nat /\ DOMAIN sent = 1 .. Len(sent) /\ DOMAIN sent' = 1 .. Len(sent) + 1
      /\ \A i \in 1 .. Len(sent) : sent'[i] = sent[i]
      /\ sent'[Len(sent) + 1] = call
    BY <1>1, <1>2
<1> HIDE DEF call, Calls, n
<1>6. Elements(sent') = Elements(sent) \cup {call}
    BY <1>1, <1>2, ElementsAppend
<1>7. SentBefore'
    BY <1>1, <1>2, <1>4, <1>6 DEF Sends, SentBefore
<1>8. SentInOrder'
    <2>1. ASSUME NEW i \in DOMAIN sent', NEW j \in DOMAIN sent', i < j
          PROVE  /\ sent'[i].data # sent'[j].data
                 /\ sent'[i].by = sent'[j].by => sent'[i].data < sent'[j].data
        <3>1. i \in 1 .. Len(sent) /\ sent'[i] = sent[i] /\ i \in DOMAIN sent
            BY <1>5, <2>1
        <3>2. CASE j \in 1 .. Len(sent)
            BY <1>5, <2>1, <3>1, <3>2 DEF Sends, SentInOrder
        <3>3. CASE j = Len(sent) + 1
            <4>1. sent[i] \in Elements(sent)
                BY <3>1 DEF Elements
            <4>2. QED
                BY <1>2, <1>4, <1>5, <3>1, <3>3, <4>1
        <3>4. QED
            BY <1>5, <3>2, <3>3
    <2>2. QED
        BY <2>1 DEF SentInOrder
<1>9. ASSUME NEW t \in Attempts
      PROVE  Holds(t)'
    <2>1. CASE t = s \/ txAt[t] # "send"
        BY <1>3, <2>1 DEF Holds
    <2>2. CASE t # s /\ txAt[t] = "send"
        <3>1. txAt'[t] = "send" /\ txItem'[t] = txItem[t] /\ Holds(t)
            BY <1>3, <2>2 DEF Sends
        <3>2. n # txItem[t]
            BY <1>4, <2>2
        <3>3. \A x \in Elements(sent') : x.data # txItem[t] /\ (x.by = t => x.data < txItem[t])
            BY <1>2, <1>6, <2>2, <3>1, <3>2 DEF Holds
        <3>4. \A u \in Attempts : txAt'[u] = "send" /\ txItem'[u] = txItem[t] => u = t
            BY <1>3, <2>2, <3>1 DEF Holds
        <3>5. QED
            BY <1>1, <2>2, <3>1, <3>3, <3>4 DEF Holds
    <2>3. QED
        BY <2>1, <2>2
<1>10. QED
    BY <1>1, <1>7, <1>8, <1>9 DEF Sends

\* Every step keeps what is sent in line with what was accepted.
LEMMA SendsStep ==
    ASSUME UdpTypeOK, Writes, Sends, [Next]_vars
    PROVE  Sends'
<1>1. CASE UNCHANGED vars \/ Built \/ PollRead \/ PollFlush \/ PollShutdown \/ Drop
    <2>1. UNCHANGED <<egress, accepted, sent, txAt, txItem>>
        BY <1>1 DEF vars, txVars, bufferVars, Built, PollRead, PollFlush, PollShutdown, Drop
    <2>2. QED
        BY <2>1, SendsQuiet
<1>2. CASE Bind
    <2>1. UNCHANGED <<egress, accepted, sent, txItem>>
        BY <1>2 DEF Bind, bufferVars
    <2>2. \A s \in Attempts : \/ txAt'[s] = txAt[s]
                              \/ txAt'[s] = "recv"
        BY <1>2 DEF Bind, UdpTypeOK
    <2>3. QED
        BY <2>1, <2>2, SendsQuiet
<1>3. ASSUME NEW d \in 1 .. MaxWrites, PollWrite(d)
      PROVE  Sends'
    <2>1. UNCHANGED <<sent, txAt, txItem>>
        BY <1>3 DEF PollWrite, txVars
    <2>2. CASE WriteQueued(d)
        BY <2>1, <2>2, SendsQueued
    <2>3. CASE WriteRefused(d) \/ WriteWaits(d) \/ WriteReported \/ WriteLost
        <3>1. UNCHANGED <<egress, accepted>>
            BY <2>3 DEF WriteRefused, WriteWaits, WriteReported, WriteLost
        <3>2. QED
            BY <2>1, <3>1, SendsQuiet
    <2>4. QED
        BY <1>3, <2>2, <2>3, WriteEffect
<1>4. ASSUME NEW p \in Peers, Arrive(p)
      PROVE  Sends'
    <2>1. UNCHANGED <<egress, accepted, sent, txAt, txItem>>
        BY <1>4 DEF Arrive, txVars, bufferVars
    <2>2. QED
        BY <2>1, SendsQuiet
<1>5. ASSUME NEW s \in Attempts, RxTask(s) \/ RxSocketError(s)
      PROVE  Sends'
    <2>1. UNCHANGED <<egress, accepted, sent, txAt, txItem>>
        BY <1>5 DEF RxTask, RxReceive, RxClaim, RxDispatch, RxAborted, RxSocketError, txVars, bufferVars
    <2>2. QED
        BY <2>1, SendsQuiet
<1>6. ASSUME NEW s \in Attempts, TxEnd(s) \/ (TxSend(s) /\ counterparty = NoPeer)
      PROVE  Sends'
    <2>1. UNCHANGED <<egress, accepted, sent>>
        BY <1>6 DEF TxEnd, TxSend, bufferVars
    <2>2. PICK from : TxStep(s, from, "end", 0)
        BY <1>6 DEF TxEnd, TxSend
    <2>3. /\ txAt'[s] = "end"
          /\ \A t \in Attempts \ {s} : txAt'[t] = txAt[t] /\ txItem'[t] = txItem[t]
        BY <2>2, TxStepEffect
    <2>4. \A t \in Attempts : \/ txAt'[t] = txAt[t] /\ txItem'[t] = txItem[t]
                              \/ txAt'[t] # "send"
        BY <2>3
    <2>5. QED
        BY <2>1, <2>4, SendsQuiet
<1>7. QED
    BY <1>1, <1>2, <1>3, <1>4, <1>5, <1>6, SendsTake, SendsSend DEF Next, Owner, Build, TxTask
-----------------------------------------------------------------------------
(* The invariant. *)

\* A stream that is not built has nothing under way.
LEMMA IInvInit ==
    ASSUME Init
    PROVE  IInv
<1>1. Elements(<<>>) = {}
    BY ElementsEmpty
<1>2. /\ <<>> \in Seq(Datagram) /\ <<>> \in Seq(Nat) /\ Len(<<>>) = 0
      /\ <<>> \in Seq([by : Attempts, to : Peers \cup {NoPeer}, data : Nat])
      /\ DOMAIN <<>> = {}
    OBVIOUS
<1>3. UdpTypeOK
    <2>1. \A s \in Attempts : Nothing \in Datagram
        BY NothingType
    <2>2. /\ kernel \in [Attempts -> Seq(Datagram)] /\ arrived \in [Peers -> 0 .. MaxSends]
          /\ rxItem \in [Attempts -> Datagram] /\ txItem \in [Attempts -> Nat]
        BY <1>2, <2>1, ConstFacts DEF Init
    <2>3. /\ rxAt \in [Attempts -> {"none", "recv", "claim", "dispatch", "end"}]
          /\ txAt \in [Attempts -> {"none", "recv", "send", "end"}]
        BY DEF Init
    <2>4. /\ ingress \in Seq(Datagram) /\ Len(ingress) <= QueueSize
          /\ egress \in Seq(Nat) /\ Len(egress) <= QueueSize
          /\ offered \in 0 .. MaxWrites /\ flushing \in 0 .. offered /\ waiting \in {0, flushing}
        BY <1>2, ConstFacts DEF Init
    <2>5. QED
        BY <1>2, <2>2, <2>3, <2>4 DEF Init, UdpTypeOK
<1>4. Senders /\ Receivers
    BY <1>1 DEF Init, Senders, Receivers
<1>5. Order /\ Numbers
    <2>1. ASSUME NEW s \in Attempts
          PROVE  kernel[s] = <<>> /\ rxItem[s] = Nothing /\ Nothing.from = NoPeer
        BY DEF Init, Nothing
    <2>2. Ascending(<<>>)
        BY <1>2 DEF Ascending
    <2>3. ASSUME NEW s \in Attempts
          PROVE  OrderAt(s) /\ \A x \in Elements(kernel[s]) \cup {rxItem[s]} : Numbered(x)
        BY <1>1, <2>1, <2>2 DEF Init, OrderAt, Before, Numbered
    <2>4. QED
        BY <1>1, <2>2, <2>3 DEF Init, Order, Numbers, Before
<1>6. Writes
    BY <1>1, <1>2 DEF Init, Writes, Rising
<1>7. Sends
    BY <1>1, <1>2 DEF Init, Sends, SentInOrder, SentBefore, Holds, Rising
<1>8. QED
    BY <1>3, <1>4, <1>5, <1>6, <1>7 DEF IInv

\* Every step keeps the invariant.
LEMMA IInvStep ==
    ASSUME IInv, [Next]_vars
    PROVE  IInv'
BY TypesStep, SendersStep, ReceiversStep, OrderStep, NumbersStep, WritesStep, SendsStep DEF IInv

\* IInv is an invariant of the specification.
LEMMA UdpInductive == Spec => []IInv
<1>1. Init => IInv
    BY IInvInit
<1>2. IInv /\ [Next]_vars => IInv'
    BY IInvStep
<1>3. QED
    BY <1>1, <1>2, PTL DEF Spec

\* However many tasks race for get_or_init, the stream keeps to one counterparty: unless
\* foreign data are accepted the reader gets data of nobody else, and send_to is called with
\* nobody else.
THEOREM StreamHasOneCounterparty == Spec => []OneCounterparty
<1>1. IInv => OneCounterparty
    <2> SUFFICES ASSUME IInv PROVE OneCounterparty
        OBVIOUS
    <2>1. ASSUME mode # "Accept", NEW i \in DOMAIN read
          PROVE  read[i].from = counterparty
        <3>1. read[i] \in Elements(read)
            BY DEF Elements
        <3>2. QED
            BY <2>1, <3>1 DEF IInv, Senders, Mine
    <2>2. ASSUME NEW i \in DOMAIN sent
          PROVE  sent[i].to = counterparty /\ counterparty # NoPeer
        <3>1. sent[i] \in Elements(sent)
            BY DEF Elements
        <3>2. QED
            BY <3>1 DEF IInv, Receivers
    <2>3. QED
        BY <2>1, <2>2 DEF OneCounterparty
<1>2. QED
    BY <1>1, UdpInductive, PTL

\* poll_write claims only buffers that are queued or whose loss was reported, in the order
\* they were written, and leaves none unclaimed but the one it is flushing; the queues keep
\* their bound and every variable its type.
THEOREM WriteReportsAreTrue == Spec => []ReportsAreTrue
<1>1. IInv => ReportsAreTrue
    BY DEF IInv, Writes, Rising, ReportsAreTrue
<1>2. QED
    BY <1>1, UdpInductive, PTL

\* Nothing is repeated or overtaken on the way of a datagram to the reader or of a buffer to
\* send_to, and what is sent was accepted.
THEOREM NothingIsRepeatedOrOvertaken == Spec => []OnceInOrder
<1>1. IInv => OnceInOrder
    <2> SUFFICES ASSUME IInv PROVE OnceInOrder
        OBVIOUS
    <2>1. ASSUME NEW i \in DOMAIN read, NEW j \in DOMAIN read, i < j,
                 read[i].from = read[j].from, read[i].via = read[j].via
          PROVE  read[i].n < read[j].n
        <3>1. read[i] \in Elements(read)
            BY DEF Elements
        <3>2. read[i].from # NoPeer
            BY <3>1, UdpAssumption DEF IInv, Senders, Mine
        <3>3. Earlier(read[i], read[j])
            BY <2>1 DEF IInv, Order, Ascending
        <3>4. QED
            BY <2>1, <3>2, <3>3 DEF Earlier
    <2>2. \A i, j \in DOMAIN sent :
            i < j => sent[i].data # sent[j].data /\ (sent[i].by = sent[j].by => sent[i].data < sent[j].data)
        BY DEF IInv, Sends, SentInOrder
    <2>3. ASSUME NEW i \in DOMAIN sent
          PROVE  sent[i].data \in Elements(accepted)
        <3>1. sent[i] \in Elements(sent)
            BY DEF Elements
        <3>2. QED
            BY <3>1 DEF IInv, Sends, SentBefore
    <2>4. QED
        BY <2>1, <2>2, <2>3 DEF OnceInOrder
<1>2. QED
    BY <1>1, UdpInductive, PTL
=============================================================================
