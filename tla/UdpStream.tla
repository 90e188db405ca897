------------------------------ MODULE UdpStream ------------------------------
(***************************************************************************)
(* ConnectedUdpStream: UDP sockets bound to one address, a task receiving  *)
(* and a task sending on each of them, the two queues between these tasks  *)
(* and the AsyncRead + AsyncWrite object its owner polls.                  *)
(*                                                                         *)
(* A task is cut at each await and at each access of the counterparty that *)
(* all tasks share.  Outside the source are the kernel (which spreads the  *)
(* peers over the sockets of the address), the flume queues and the peers. *)
(***************************************************************************)
EXTENDS Integers, Sequences, FiniteSets

CONSTANTS
    Peers,
    NoPeer,         \* an empty OnceLock
    RxParallelism, TxParallelism,   \* a number, or 0 for Auto
    Cpus,           \* std::thread::available_parallelism
    NumAddrs,       \* how many addresses bind_addr yields
    QueueSize,
    Faults,         \* among "bind", "empty", "socket": what may go wrong
    MaxSends,       \* bound: datagrams per peer
    MaxWrites       \* bound: buffers the owner writes

ASSUME UdpAssumption ==
    /\ NoPeer \notin Peers
    /\ {RxParallelism, TxParallelism, MaxSends, MaxWrites} \subseteq Nat
    /\ {Cpus, NumAddrs, QueueSize} \subseteq Nat \ {0}
    /\ Faults \subseteq {"bind", "empty", "socket"}

AtMost(a, b) == IF a < b THEN a ELSE b
AtLeast(a, b) == IF a > b THEN a ELSE b

\* split_evenly_with.
SplitEvenly(rx, tx) ==
    LET half == AtLeast(Cpus \div 2, 1)
        own(n) == IF n = 0 THEN half ELSE AtMost(half, n)
    IN  << IF rx = 0 THEN 2 * half - own(tx) ELSE own(rx),
           IF tx = 0 THEN 2 * half - own(rx) ELSE own(tx) >>

NumRx == SplitEvenly(RxParallelism, TxParallelism)[1]
NumTx == SplitEvenly(RxParallelism, TxParallelism)[2]
NumSocks == AtLeast(NumRx, NumTx)

\* build tries NumSocks sockets for each address; the attempts are numbered through.
Attempts == 0 .. NumAddrs * NumSocks - 1
SockId(s) == s % NumSocks

VARIABLES
    mode,         \* ForeignDataMode
    hash,         \* where the kernel's hash puts each peer
    phase,        \* of the object: binding, open, shutdown, dropped or failed
    aborted,      \* JoinHandle::abort was called on every task
    attempts,     \* sockets tried so far
    addressed,    \* bound_addr is set
    counterparty,
    kernel,       \* what each socket has received and not yet been asked for
    arrived,      \* datagrams each peer got through so far
    rxAt, rxItem, \* the receiving tasks
    txAt, txItem, \* the sending tasks
    ingress, egress,
    read, told,   \* what poll_read returned: data; errors and the end
    offered,      \* buffers the owner has come up with: 1, 2, ...
    flushing,     \* State::Flushing(len), 0 for State::Writing
    waiting,      \* the buffer for which the full egress queue had no room, or 0
    accepted, reported, refused,    \* buffers queued, reported Ok, reported Err
    sent          \* calls of send_to, by the task of each socket

netVars == <<kernel, arrived>>
rxVars == <<rxAt, rxItem, ingress>>
txVars == <<txAt, txItem, sent>>
readVars == <<read, told>>
writeVars == <<offered, flushing, reported, refused>>
bufferVars == <<egress, waiting, accepted>>
buildVars == <<mode, hash, phase, aborted, attempts, addressed>>
vars == <<buildVars, counterparty, netVars, rxVars, txVars, readVars, writeVars, bufferVars>>

Nothing == [from |-> NoPeer, n |-> 0, via |-> 0, what |-> "none"]
Datagram == [from : Peers \cup {NoPeer}, n : Nat, via : Attempts,
             what : {"none", "data", "empty", "error"}]

Init ==
    /\ mode \in {"Discard", "Accept", "Error"}
    /\ hash \in [Peers -> 0 .. NumSocks - 1]
    /\ phase = "binding" /\ aborted = FALSE /\ attempts = 0 /\ addressed = FALSE
    /\ counterparty \in Peers \cup {NoPeer}
    /\ kernel = [s \in Attempts |-> <<>>] /\ arrived = [p \in Peers |-> 0]
    /\ rxAt = [s \in Attempts |-> "none"] /\ rxItem = [s \in Attempts |-> Nothing]
    /\ txAt = [s \in Attempts |-> "none"] /\ txItem = [s \in Attempts |-> 0]
    /\ ingress = <<>> /\ egress = <<>>
    /\ read = <<>> /\ told = {}
    /\ offered = 0 /\ flushing = 0 /\ waiting = 0
    /\ accepted = <<>> /\ reported = <<>> /\ refused = {} /\ sent = <<>>

Ended == {"none", "end"}
Receiving == {s \in Attempts : rxAt[s] \notin Ended}
Sending == {s \in Attempts : txAt[s] \notin Ended}
Closed == phase \in {"shutdown", "dropped"}
-----------------------------------------------------------------------------
(* UdpStreamBuilder::build. *)

Bind ==
    LET s == attempts IN
    /\ phase = "binding" /\ s \in Attempts
    /\ attempts' = s + 1
    /\ \E outcome \in {"bound"} \cup (IF "bind" \in Faults THEN {"refused", "unusable"} ELSE {}) :
         \* without SO_REUSEPORT an address is bound once
         /\ (NumSocks = 1 /\ Receiving \cup Sending # {}) => outcome = "refused"
         /\ addressed' = (addressed \/ outcome # "refused")
         /\ txAt' = [txAt EXCEPT ![s] = IF outcome = "bound" /\ SockId(s) < NumTx THEN "recv" ELSE @]
         /\ rxAt' = [rxAt EXCEPT ![s] = IF outcome = "bound" /\ SockId(s) < NumRx THEN "recv" ELSE @]
    /\ UNCHANGED <<mode, hash, phase, aborted, counterparty, netVars, rxItem, ingress, txItem, sent,
                   readVars, writeVars, bufferVars>>

Built ==
    /\ phase = "binding" /\ attempts \notin Attempts
    /\ phase' = IF addressed THEN "open" ELSE "failed"
    /\ UNCHANGED <<mode, hash, aborted, attempts, addressed, counterparty, netVars, rxVars, txVars,
                   readVars, writeVars, bufferVars>>
-----------------------------------------------------------------------------
(* The peers and the kernel. *)

\* A socket is open while one of its tasks holds it.  The kernel hashes each peer to
\* one of the sockets open on the address, whether or not anybody receives from it.
Socket(p) ==
    LET open == Receiving \cup Sending
    IN  CHOOSE s \in open :
            Cardinality({t \in open : t < s}) = hash[p] % Cardinality(open)

Arrive(p) ==
    /\ Receiving \cup Sending # {} /\ arrived[p] < MaxSends
    /\ arrived' = [arrived EXCEPT ![p] = @ + 1]
    /\ \E what \in {"data"} \cup (Faults \cap {"empty"}) :
         kernel' = [kernel EXCEPT ![Socket(p)] =
                      Append(@, [from |-> p, n |-> arrived'[p], via |-> Socket(p), what |-> what])]
    /\ UNCHANGED <<buildVars, counterparty, rxVars, txVars, readVars, writeVars, bufferVars>>
-----------------------------------------------------------------------------
(* setup_rx_queue. *)

RxStep(s, from, to, item) ==
    /\ rxAt[s] = from
    /\ rxAt' = [rxAt EXCEPT ![s] = to]
    /\ rxItem' = [rxItem EXCEPT ![s] = item]

\* Mutant: peek_from in place of recv_from.
RxReceivePeeking(s) ==
    /\ kernel[s] # <<>>
    /\ RxStep(s, "recv", "claim", Head(kernel[s]))
    /\ UNCHANGED <<buildVars, counterparty, netVars, ingress, txVars, readVars, writeVars, bufferVars>>

\* recv_from returned: nothing was in the datagram, and the task ends as on an end of file.
RxReceive(s) ==
    /\ kernel[s] # <<>>
    /\ IF Head(kernel[s]).what = "empty"
       THEN RxStep(s, "recv", "end", Nothing)
       ELSE RxStep(s, "recv", "claim", Head(kernel[s]))
    /\ kernel' = [kernel EXCEPT ![s] = Tail(@)]
    /\ UNCHANGED <<buildVars, counterparty, arrived, ingress, txVars, readVars, writeVars, bufferVars>>

\* recv_from failed: the error goes to the reader.
RxSocketError(s) ==
    /\ "socket" \in Faults
    /\ RxStep(s, "recv", "dispatch", [Nothing EXCEPT !.via = s, !.what = "error"])
    /\ UNCHANGED <<buildVars, counterparty, netVars, ingress, txVars, readVars, writeVars, bufferVars>>

\* Mutant: the sender is compared with the counterparty read before get_or_init.
RxClaimUnchecked(s) ==
    LET d == rxItem[s]
        addr == IF counterparty = NoPeer THEN d.from ELSE counterparty
    IN  /\ counterparty' = addr
        /\ RxStep(s, "claim", "dispatch", d)
        /\ UNCHANGED <<buildVars, netVars, ingress, txVars, readVars, writeVars, bufferVars>>

\* get_or_init fixes the counterparty, or finds who it is; what is foreign is passed,
\* dropped or turned into an error.
RxClaim(s) ==
    LET d == rxItem[s]
        addr == IF counterparty = NoPeer THEN d.from ELSE counterparty
    IN  /\ counterparty' = addr
        /\ IF d.from = addr \/ mode = "Accept" THEN RxStep(s, "claim", "dispatch", d)
           ELSE IF mode = "Discard" THEN RxStep(s, "claim", "recv", Nothing)
           ELSE RxStep(s, "claim", "dispatch", [d EXCEPT !.what = "error"])
        /\ UNCHANGED <<buildVars, netVars, ingress, txVars, readVars, writeVars, bufferVars>>

\* Mutant: a full queue makes the task give up on what it has received.
RxDispatchTrying(s) ==
    /\ RxStep(s, "dispatch", IF rxItem[s].what = "error" THEN "end" ELSE "recv", Nothing)
    /\ ingress' = IF Len(ingress) < QueueSize THEN Append(ingress, rxItem[s]) ELSE ingress
    /\ UNCHANGED <<buildVars, counterparty, netVars, txVars, readVars, writeVars, bufferVars>>

\* send_async waits for room; it fails once the reading half is gone.  An error is the
\* last thing a task passes on.
RxDispatch(s) ==
    /\ IF phase = "dropped"
       THEN RxStep(s, "dispatch", "end", Nothing) /\ UNCHANGED ingress
       ELSE /\ Len(ingress) < QueueSize
            /\ RxStep(s, "dispatch", IF rxItem[s].what = "error" THEN "end" ELSE "recv", Nothing)
            /\ ingress' = Append(ingress, rxItem[s])
    /\ UNCHANGED <<buildVars, counterparty, netVars, txVars, readVars, writeVars, bufferVars>>

\* JoinHandle::abort takes effect at the next await.
RxAborted(s) ==
    /\ aborted /\ rxAt[s] \in {"recv", "dispatch"}
    /\ RxStep(s, rxAt[s], "end", Nothing)
    /\ UNCHANGED <<buildVars, counterparty, netVars, ingress, txVars, readVars, writeVars, bufferVars>>
-----------------------------------------------------------------------------
(* setup_tx_queue. *)

TxStep(s, from, to, item) ==
    /\ txAt[s] = from
    /\ txAt' = [txAt EXCEPT ![s] = to]
    /\ txItem' = [txItem EXCEPT ![s] = item]

\* A receive makes room in the queue for the buffer that waits.
TxTake(s) ==
    /\ egress # <<>>
    /\ TxStep(s, "recv", "send", Head(egress))
    /\ egress' = Tail(egress) \o (IF waiting = 0 THEN <<>> ELSE <<waiting>>)
    /\ accepted' = accepted \o (IF waiting = 0 THEN <<>> ELSE <<waiting>>)
    /\ waiting' = 0
    /\ UNCHANGED <<buildVars, counterparty, netVars, rxVars, sent, readVars, writeVars>>

\* Mutant: the task ends after one datagram.
TxSendLast(s) ==
    /\ TxStep(s, "send", "end", 0)
    /\ sent' = IF counterparty = NoPeer THEN sent
               ELSE Append(sent, [by |-> s, to |-> counterparty, data |-> txItem[s]])
    /\ UNCHANGED <<buildVars, counterparty, netVars, rxVars, readVars, writeVars, bufferVars>>

\* A datagram goes to the counterparty, and an error of send_to is only logged.  With no
\* counterparty yet, the datagram is dropped and the task ends.
TxSend(s) ==
    /\ IF counterparty = NoPeer
       THEN TxStep(s, "send", "end", 0) /\ UNCHANGED sent
       ELSE /\ TxStep(s, "send", "recv", 0)
            /\ sent' = Append(sent, [by |-> s, to |-> counterparty, data |-> txItem[s]])
    /\ UNCHANGED <<buildVars, counterparty, netVars, rxVars, readVars, writeVars, bufferVars>>

\* recv_async fails when the queue is drained and its sender gone; an abort ends the task
\* at either await.
TxEnd(s) ==
    /\ \/ phase = "dropped" /\ egress = <<>> /\ TxStep(s, "recv", "end", 0)
       \/ aborted /\ s \in Sending /\ TxStep(s, txAt[s], "end", 0)
    /\ UNCHANGED <<buildVars, counterparty, netVars, rxVars, sent, readVars, writeVars, bufferVars>>
-----------------------------------------------------------------------------
(* The owner of the stream. *)

Owned == phase \in {"open", "shutdown"}

\* poll_read, when it is not Pending.
PollRead ==
    /\ Owned
    /\ IF ingress # <<>>
       THEN /\ ingress' = Tail(ingress)
            /\ IF Head(ingress).what = "error"
               THEN told' = told \cup {Head(ingress)} /\ UNCHANGED read
               ELSE read' = Append(read, Head(ingress)) /\ UNCHANGED told
       ELSE /\ Receiving = {}
            /\ told' = told \cup {Nothing} /\ UNCHANGED <<ingress, read>>
    /\ UNCHANGED <<buildVars, counterparty, netVars, rxAt, rxItem, txVars, writeVars, bufferVars>>

\* The flume sink: what a poll of it finds.
Disconnected == Sending = {}

\* poll_write in State::Writing: the buffer enters the sink and is flushed at once.
WriteNew(d) ==
    /\ flushing = 0 /\ d = offered + 1
    /\ IF Disconnected
       THEN refused' = refused \cup {d} /\ UNCHANGED <<flushing, reported, bufferVars>>
       ELSE /\ UNCHANGED refused
            /\ IF Len(egress) < QueueSize
               THEN /\ egress' = Append(egress, d) /\ accepted' = Append(accepted, d)
                    /\ reported' = Append(reported, d)
                    /\ UNCHANGED <<flushing, waiting>>
               ELSE /\ waiting' = d /\ flushing' = d
                    /\ UNCHANGED <<reported, egress, accepted>>

\* Mutant: the length reported is that of the buffer of this call.
WriteResumeNewLength(d) ==
    /\ flushing # 0 /\ d \in {flushing, offered + 1}
    /\ flushing' = 0
    /\ IF waiting = 0
       THEN reported' = Append(reported, d) /\ UNCHANGED <<refused, bufferVars>>
       ELSE /\ Disconnected
            /\ refused' = refused \cup {waiting} /\ waiting' = 0
            /\ UNCHANGED <<reported, egress, accepted>>

\* poll_write in State::Flushing: whatever buffer it is given, it waits for the last one
\* and reports that one's length.
WriteResume(d) ==
    /\ flushing # 0 /\ d \in {flushing, offered + 1}
    /\ flushing' = 0
    /\ IF waiting = 0
       THEN reported' = Append(reported, flushing) /\ UNCHANGED <<refused, bufferVars>>
       ELSE /\ Disconnected
            /\ refused' = refused \cup {waiting} /\ waiting' = 0
            /\ UNCHANGED <<reported, egress, accepted>>

PollWrite(d) ==
    /\ Owned /\ d <= MaxWrites
    /\ offered' = AtLeast(offered, d)
    /\ WriteNew(d) \/ WriteResume(d)
    /\ UNCHANGED <<buildVars, counterparty, netVars, rxVars, txVars, readVars>>

\* poll_flush changes something only by reporting a buffer the sink can no longer place;
\* it leaves the state at Flushing.
PollFlush ==
    /\ Owned /\ waiting # 0 /\ Disconnected
    /\ refused' = refused \cup {waiting} /\ waiting' = 0
    /\ UNCHANGED <<buildVars, counterparty, netVars, rxVars, txVars, readVars, offered, flushing,
                   reported, egress, accepted>>

\* poll_close of the sink flushes it; then every task is aborted, whatever it returned.
PollShutdown ==
    /\ Owned /\ (waiting # 0 => Disconnected)
    /\ refused' = (refused \cup {waiting}) \ {0} /\ waiting' = 0
    /\ phase' = "shutdown" /\ aborted' = TRUE
    /\ UNCHANGED <<mode, hash, attempts, addressed, counterparty, netVars, rxVars, txVars,
                   readVars, offered, flushing, reported, egress, accepted>>

\* Mutant: the tasks outlive the object.
DropSilently ==
    /\ Owned /\ phase' = "dropped" /\ waiting' = 0
    /\ UNCHANGED <<mode, hash, aborted, attempts, addressed, counterparty, netVars, rxVars, txVars,
                   readVars, writeVars, egress, accepted>>

\* PinnedDrop aborts every task; the sink goes, and with it the buffer that waits.
Drop ==
    /\ Owned /\ phase' = "dropped" /\ aborted' = TRUE /\ waiting' = 0
    /\ UNCHANGED <<mode, hash, attempts, addressed, counterparty, netVars, rxVars, txVars,
                   readVars, writeVars, egress, accepted>>

Build == Bind \/ Built
RxTask(s) == RxReceive(s) \/ RxClaim(s) \/ RxDispatch(s) \/ RxAborted(s)
TxTask(s) == TxTake(s) \/ TxSend(s) \/ TxEnd(s)
Owner == PollRead \/ PollFlush \/ PollShutdown \/ Drop \/ \E d \in 1 .. MaxWrites : PollWrite(d)

Next ==
    \/ Build \/ Owner
    \/ \E p \in Peers : Arrive(p)
    \/ \E s \in Attempts : RxTask(s) \/ RxSocketError(s) \/ TxTask(s)

Spec == Init /\ [][Next]_vars

\* build is called, the runtime runs every task that can go on and the owner keeps reading.
FairSpec ==
    /\ Spec /\ WF_vars(Build) /\ WF_vars(PollRead)
    /\ \A s \in Attempts : WF_vars(RxTask(s)) /\ WF_vars(TxTask(s))
-----------------------------------------------------------------------------
(* Properties. *)

Elements(seq) == {seq[i] : i \in DOMAIN seq}

\* The variables of build, setup_rx_queue, setup_tx_queue and the poll functions have
\* their types, the queues their bound, and a buffer waits only during a flush.
UdpTypeOK ==
    /\ mode \in {"Discard", "Accept", "Error"} /\ hash \in [Peers -> 0 .. NumSocks - 1]
    /\ phase \in {"binding", "open", "shutdown", "dropped", "failed"}
    /\ aborted \in BOOLEAN /\ attempts \in Nat /\ addressed \in BOOLEAN
    /\ counterparty \in Peers \cup {NoPeer}
    /\ kernel \in [Attempts -> Seq(Datagram)] /\ arrived \in [Peers -> 0 .. MaxSends]
    /\ rxAt \in [Attempts -> {"none", "recv", "claim", "dispatch", "end"}]
    /\ rxItem \in [Attempts -> Datagram]
    /\ txAt \in [Attempts -> {"none", "recv", "send", "end"}] /\ txItem \in [Attempts -> Nat]
    /\ ingress \in Seq(Datagram) /\ Len(ingress) <= QueueSize
    /\ egress \in Seq(Nat) /\ Len(egress) <= QueueSize
    /\ read \in Seq(Datagram) /\ told \subseteq Datagram
    /\ offered \in 0 .. MaxWrites /\ flushing \in 0 .. offered /\ waiting \in {0, flushing}
    /\ accepted \in Seq(Nat) /\ reported \in Seq(Nat) /\ refused \subseteq Nat
    /\ sent \in Seq([by : Attempts, to : Peers \cup {NoPeer}, data : Nat])

\* However many tasks race to fix the counterparty with get_or_init, the stream talks to
\* one address: unless foreign data are accepted the reader gets data of no other, and
\* send_to is never called with another.
OneCounterparty ==
    /\ mode # "Accept" => \A i \in DOMAIN read : read[i].from = counterparty
    /\ \A i \in DOMAIN sent : sent[i].to = counterparty /\ counterparty # NoPeer

\* poll_write never claims a buffer that is not queued, unless an earlier poll_flush or
\* poll_shutdown reported its loss, and leaves none that is queued unclaimed except the
\* one it is flushing: also when the owner gave up on a write and comes with another.
ReportsAreTrue ==
    /\ UdpTypeOK
    /\ \A i, j \in DOMAIN reported : i < j => reported[i] < reported[j]
    /\ Elements(reported) \subseteq Elements(accepted) \cup refused
    /\ Elements(accepted) \subseteq Elements(reported) \cup {flushing}

\* Nothing is repeated or overtaken on its way through the tasks, the shared queues and
\* their back-pressure: what a peer sent through one socket is read once and in the order
\* it arrived; a buffer the queue accepted is sent at most once, whichever task takes it,
\* nothing else is sent, and each sending task keeps the order of the writes among what it
\* sends (two of them may overtake each other).
OnceInOrder ==
    /\ \A i, j \in DOMAIN read :
         i < j /\ read[i].from = read[j].from /\ read[i].via = read[j].via => read[i].n < read[j].n
    /\ \A i, j \in DOMAIN sent :
         i < j => sent[i].data # sent[j].data /\ (sent[i].by = sent[j].by => sent[i].data < sent[j].data)
    /\ \A i \in DOMAIN sent : sent[i].data \in Elements(accepted)

Is(d, p, n) == d.from = p /\ d.n = n

\* What a receiving task took from its socket reaches the reader, as data or as the error
\* about foreign data, unless the mode discards it or the stream is closed.
TakenIsTold ==
    \A p \in Peers, n \in 1 .. MaxSends :
        (\E s \in Attempts : Is(rxItem[s], p, n))
            ~> \/ Closed
               \/ mode = "Discard" /\ p # counterparty
               \/ \E d \in Elements(read) \cup told : Is(d, p, n)

\* Once the counterparty is known and a sending task is left, a buffer that is queued or
\* waits for room is sent, even if its owner gave up on the write, unless the stream is closed.
QueuedIsSent ==
    \A d \in 1 .. MaxWrites :
        (d \in Elements(egress) \cup {waiting} /\ counterparty # NoPeer /\ Sending # {})
            ~> (Closed \/ \E i \in DOMAIN sent : sent[i].data = d)

\* poll_shutdown and Drop end every task, wherever it waits.
ClosedEnds == Closed ~> (Receiving = {} /\ Sending = {})

\* "The returned instance is always ready to receive data": what the only peer sends to a
\* built stream is read, or the reader is told, unless the stream is closed.
AlwaysReady ==
    \A p \in Peers, n \in 1 .. MaxSends :
        (\E s \in Attempts : \E i \in DOMAIN kernel[s] : Is(kernel[s][i], p, n))
            ~> (Closed \/ told # {} \/ \E d \in Elements(read) : Is(d, p, n))
=============================================================================
