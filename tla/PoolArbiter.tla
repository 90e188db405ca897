----------------------------- MODULE PoolArbiter -----------------------------
(***************************************************************************)
(* The shared rayon pool with its encode/decode arbiter                    *)
(* (parallelize/mod.rs `cpu`, parallelize/cpu/arbitration.rs).             *)
(*                                                                         *)
(* A call is one invocation of spawn_decode_blocking (Decoders),           *)
(* spawn_encode_blocking (Encoders) or of spawn_blocking /                 *)
(* spawn_fifo_blocking directly (Acks).  Two threads serve it: the async   *)
(* future of the caller (pc) and, once submitted, the closure run by a     *)
(* worker of the pool (wpc).  Every access to a shared atomic is one step. *)
(* The futures of MayDrop are awaited under a timeout: they can be dropped *)
(* at any await.  A task that panics takes the steps of one that returns:  *)
(* catch_unwind turns the panic into the result, and the guards drop in    *)
(* the same order on both sides.                                           *)
(***************************************************************************)
EXTENDS ArbiterSetup, EventListener

CONSTANTS
    Decoders, Encoders, Acks,   \* the calls, by entry point
    MayDrop,      \* the calls whose caller gives up after a timeout
    Workers,      \* the threads of the largest pool that can be built
    QueueLimit,   \* HOPR_CPU_TASK_QUEUE_LIMIT; 0 stands for no limit
    WeakCas       \* compare_exchange_weak may fail spuriously on this target

Calls == Decoders \cup Encoders \cup Acks
Tagged == Decoders \cup Encoders

\* No task: what an idle worker holds.
CONSTANT NoCall

ASSUME PoolAssumption ==
    /\ IsFiniteSet(Calls)
    /\ Decoders \cap Encoders = {}
    /\ Tagged \cap Acks = {}
    /\ MayDrop \subseteq Calls
    /\ IsFiniteSet(Workers)
    /\ QueueLimit \in Nat
    /\ WeakCas \in BOOLEAN
    /\ NoCall \notin Calls
    /\ \A n \in PoolSizes \cup {InitialPool, DefaultThreads} : n <= Cardinality(Workers)

VARIABLES
    pc,                  \* control point of each call's future
    loc,                 \* locals of admit_decode / try_reserve_decode
    decodeOutstanding,   \* DECODE_OUTSTANDING
    encodeOutstanding,   \* ENCODE_OUTSTANDING
    running,             \* RUNNING
    outstanding,         \* OUTSTANDING
    listeners,           \* ARBITRATION_EVENT: listeners in registration order
    note,                \* ARBITRATION_EVENT: state of each listener
    queue,               \* rayon's injector queue (FIFO)
    worker,              \* the call whose closure each worker is executing
    wpc,                 \* control point of that closure
    sent                 \* the oneshot channel of a call holds its result

counters == <<decodeOutstanding, encodeOutstanding, running, outstanding>>
event == <<listeners, note>>
pool == <<queue, worker, wpc, sent>>
vars == <<setupVars, pc, loc, counters, event, pool>>

FuturePoints ==
    {"idle", "head", "pass", "occ", "res", "dec", "run", "enc", "cas", "listen",
     "recheck", "parked", "submit", "reject", "waiting", "release", "notify", "done"}
WorkerPoints == {"idle", "run", "exit", "notify", "slot"}

\* Locals out of scope.
NoLocals == [pool |-> 0, occ |-> 0, res |-> 0, dec |-> 0, run |-> 0, cap |-> NoCap]

Init ==
    /\ SetupInit
    /\ pc = [c \in Calls |-> IF c \in Acks THEN "submit" ELSE "idle"]
    /\ loc = [c \in Calls |-> NoLocals]
    /\ decodeOutstanding = 0 /\ encodeOutstanding = 0
    /\ running = 0 /\ outstanding = 0
    /\ listeners = <<>>
    /\ note = [c \in Calls |-> "absent"]
    /\ queue = <<>>
    /\ worker = [w \in Workers |-> NoCall]
    /\ wpc = [w \in Workers |-> "idle"]
    /\ sent = [c \in Calls |-> FALSE]

At(c, from, to) ==
    /\ pc[c] = from
    /\ pc' = [pc EXCEPT ![c] = to]

DropListener(c) ==
    /\ listeners' = RemoveFirst(listeners, c)
    /\ note' = NotesAfterDrop(listeners, note, c)

NotifyAdditional ==
    /\ note' = NotifyNext(listeners, note, "additional")
    /\ UNCHANGED listeners
-----------------------------------------------------------------------------
(* admit_decode, on the future's thread. *)

\* Entry: the pool size is read once; the entry test and the first test of the
\* loop read ARBITRATION_ENABLED twice in a row with nothing in between.
AdmitEntry(c) ==
    /\ c \in Decoders
    /\ At(c, "idle", IF enabled /\ poolThreadCount # 0 THEN "occ" ELSE "pass")
    /\ loc' = [loc EXCEPT ![c].pool = poolThreadCount]
    /\ UNCHANGED <<setupVars, counters, event, pool>>

\* Loop head after a wake-up.
AdmitHead(c) ==
    /\ At(c, "head", IF enabled THEN "occ" ELSE "pass")
    /\ UNCHANGED <<setupVars, loc, counters, event, pool>>

\* Pass straight through: reserve without a cap, then return, which drops the
\* listener if there is one.
AdmitPass(c) ==
    /\ At(c, "pass", "submit")
    /\ decodeOutstanding' = decodeOutstanding + 1
    /\ loc' = [loc EXCEPT ![c] = NoLocals]
    /\ DropListener(c)
    /\ UNCHANGED <<setupVars, encodeOutstanding, running, outstanding, pool>>

LoadOccupancy(c) ==
    /\ At(c, "occ", "res")
    /\ loc' = [loc EXCEPT ![c].occ = occupancyPct]
    /\ UNCHANGED <<setupVars, counters, event, pool>>

LoadReserve(c) ==
    /\ At(c, "res", "dec")
    /\ loc' = [loc EXCEPT ![c].res = reservePct]
    /\ UNCHANGED <<setupVars, counters, event, pool>>

\* try_reserve_decode loads its three counters one after the other.
LoadDecode(c) ==
    /\ At(c, "dec", "run")
    /\ loc' = [loc EXCEPT ![c].dec = decodeOutstanding]
    /\ UNCHANGED <<setupVars, counters, event, pool>>

LoadRunning(c) ==
    /\ At(c, "run", "enc")
    /\ loc' = [loc EXCEPT ![c].run = running]
    /\ UNCHANGED <<setupVars, counters, event, pool>>

CapFor(c) ==
    DecodeAdmitCap(loc[c].pool, loc[c].run, loc[c].dec, encodeOutstanding,
                   loc[c].occ, loc[c].res)

\* Over the cap, the first attempt goes on to register a listener and the
\* second one, made with the listener registered, awaits it.
LoadEncode(c) ==
    /\ At(c, "enc", IF UnderCap(loc[c].dec, CapFor(c)) THEN "cas"
                    ELSE IF note[c] = "absent" THEN "listen" ELSE "parked")
    /\ loc' = [loc EXCEPT ![c].cap = CapFor(c)]
    /\ UNCHANGED <<setupVars, counters, event, pool>>

\* Mutant: a plain fetch_add after the test.
CasReserveUnchecked(c) ==
    /\ At(c, "cas", "submit")
    /\ decodeOutstanding' = decodeOutstanding + 1
    /\ loc' = [loc EXCEPT ![c] = NoLocals]
    /\ DropListener(c)
    /\ UNCHANGED <<setupVars, encodeOutstanding, running, outstanding, pool>>

\* compare_exchange_weak succeeds: the slot is reserved; returning drops the
\* listener of a second attempt.
CasReserve(c) ==
    /\ decodeOutstanding = loc[c].dec
    /\ At(c, "cas", "submit")
    /\ decodeOutstanding' = decodeOutstanding + 1
    /\ loc' = [loc EXCEPT ![c] = NoLocals]
    /\ DropListener(c)
    /\ UNCHANGED <<setupVars, encodeOutstanding, running, outstanding, pool>>

CasRetry(c) ==
    /\ decodeOutstanding # loc[c].dec \/ WeakCas
    /\ At(c, "cas", "dec")
    /\ UNCHANGED <<setupVars, loc, counters, event, pool>>

Listen(c) ==
    /\ At(c, "listen", "recheck")
    /\ listeners' = Append(listeners, c)
    /\ note' = [note EXCEPT ![c] = "waiting"]
    /\ UNCHANGED <<setupVars, loc, counters, pool>>

\* Mutants: the switch is not read again; the second attempt is left out.
RecheckIgnoresSwitch(c) ==
    /\ At(c, "recheck", "dec")
    /\ UNCHANGED <<setupVars, loc, counters, event, pool>>
RecheckWithoutRetry(c) ==
    /\ At(c, "recheck", IF enabled THEN "parked" ELSE "pass")
    /\ UNCHANGED <<setupVars, loc, counters, event, pool>>

\* Re-check with the listener registered: the switch is read again, the
\* percentages are not.
Recheck(c) ==
    /\ At(c, "recheck", IF enabled THEN "dec" ELSE "pass")
    /\ UNCHANGED <<setupVars, loc, counters, event, pool>>

\* listener.await returns: the notification is consumed.
Wake(c) ==
    /\ note[c] \in NotifiedNotes
    /\ At(c, "parked", "head")
    /\ listeners' = RemoveFirst(listeners, c)
    /\ note' = [note EXCEPT ![c] = "absent"]
    /\ loc' = [loc EXCEPT ![c] = [NoLocals EXCEPT !.pool = loc[c].pool]]
    /\ UNCHANGED <<setupVars, counters, pool>>
-----------------------------------------------------------------------------
(* spawn_encode_blocking, spawn_fifo_blocking and the end of every call. *)

EncodeEntry(c) ==
    /\ c \in Encoders
    /\ At(c, "idle", "submit")
    /\ encodeOutstanding' = encodeOutstanding + 1
    /\ UNCHANGED <<setupVars, loc, decodeOutstanding, running, outstanding, event, pool>>

\* Mutant: the previous count is compared instead of the new one.
OverLimitByOne == QueueLimit # 0 /\ outstanding > QueueLimit

\* The slot is taken before the limit is looked at.
OverLimit == QueueLimit # 0 /\ outstanding + 1 > QueueLimit

\* Where a call goes when spawn_fifo_blocking is left: a tagged one drops its
\* TaggedGuard first.
Leave(c) == IF c \in Tagged THEN "release" ELSE "done"

\* cancellable_task gets a slot; the closure goes to the injector queue.
SubmitAccepted(c) ==
    /\ ~OverLimit
    /\ At(c, "submit", "waiting")
    /\ outstanding' = outstanding + 1
    /\ queue' = Append(queue, c)
    /\ built' = BuiltOnUse
    /\ UNCHANGED <<poolThreadCount, policyVars, at, args, loc, decodeOutstanding,
                   encodeOutstanding, running, event, worker, wpc, sent>>

\* QueueFull: the guard just created still counts until it is dropped.
SubmitRejected(c) ==
    /\ OverLimit
    /\ At(c, "submit", "reject")
    /\ outstanding' = outstanding + 1
    /\ UNCHANGED <<setupVars, loc, decodeOutstanding, encodeOutstanding, running, event, pool>>

\* Mutant: the error path decrements and the guard does so again.
DropRejectedSlotTwice(c) ==
    /\ At(c, "reject", Leave(c))
    /\ outstanding' = outstanding - 2
    /\ UNCHANGED <<setupVars, loc, decodeOutstanding, encodeOutstanding, running, event, pool>>

DropRejectedSlot(c) ==
    /\ At(c, "reject", Leave(c))
    /\ outstanding' = outstanding - 1
    /\ UNCHANGED <<setupVars, loc, decodeOutstanding, encodeOutstanding, running, event, pool>>

\* rx.await yields the result.
Complete(c) ==
    /\ sent[c]
    /\ At(c, "waiting", Leave(c))
    /\ sent' = [sent EXCEPT ![c] = FALSE]
    /\ UNCHANGED <<setupVars, loc, counters, event, queue, worker, wpc>>

\* The caller's timeout drops the future while it awaits the result: the
\* receiver goes, the queued or running closure stays.
DropWaiting(c) ==
    /\ c \in MayDrop
    /\ At(c, "waiting", Leave(c))
    /\ sent' = [sent EXCEPT ![c] = FALSE]
    /\ UNCHANGED <<setupVars, loc, counters, event, queue, worker, wpc>>

\* The caller's timeout drops the future while it is parked in admit_decode.
DropParked(c) ==
    /\ c \in MayDrop
    /\ At(c, "parked", "done")
    /\ loc' = [loc EXCEPT ![c] = NoLocals]
    /\ DropListener(c)
    /\ UNCHANGED <<setupVars, counters, pool>>

\* TaggedGuard::drop: first the decrement, then the notification.
TaggedRelease(c) ==
    /\ At(c, "release", "notify")
    /\ decodeOutstanding' = decodeOutstanding - (IF c \in Decoders THEN 1 ELSE 0)
    /\ encodeOutstanding' = encodeOutstanding - (IF c \in Encoders THEN 1 ELSE 0)
    /\ UNCHANGED <<setupVars, loc, running, outstanding, event, pool>>

TaggedNotify(c) ==
    /\ At(c, "notify", "done")
    /\ NotifyAdditional
    /\ UNCHANGED <<setupVars, loc, counters, pool>>
-----------------------------------------------------------------------------
(* The closure of cancellable_task, on a worker of the pool. *)

\* The members of S whose control point is one of the given points.
Standing(S, ctl, points) == {x \in S : ctl[x] \in points}
BusyWorkers == Standing(Workers, wpc, WorkerPoints \ {"idle"})

WorkerAt(w, from, to) ==
    /\ wpc[w] = from
    /\ wpc' = [wpc EXCEPT ![w] = to]

\* Mutant: a skipped task forgets its slot.
StartSkippedLeaks(w) ==
    /\ Cardinality(BusyWorkers) < built
    /\ queue # <<>> /\ pc[Head(queue)] # "waiting"
    /\ WorkerAt(w, "idle", "idle")
    /\ queue' = Tail(queue)
    /\ UNCHANGED <<setupVars, pc, loc, counters, event, worker, sent>>

\* A receiver dropped before the start: skip, only the slot is released.
StartSkipped(w) ==
    /\ Cardinality(BusyWorkers) < built
    /\ queue # <<>> /\ pc[Head(queue)] # "waiting"
    /\ WorkerAt(w, "idle", "slot")
    /\ worker' = [worker EXCEPT ![w] = Head(queue)]
    /\ queue' = Tail(queue)
    /\ UNCHANGED <<setupVars, pc, loc, counters, event, sent>>

\* RunningGuard::enter, then the task body.
StartRunning(w) ==
    /\ Cardinality(BusyWorkers) < built
    /\ queue # <<>> /\ pc[Head(queue)] = "waiting"
    /\ WorkerAt(w, "idle", "run")
    /\ worker' = [worker EXCEPT ![w] = Head(queue)]
    /\ queue' = Tail(queue)
    /\ running' = running + 1
    /\ UNCHANGED <<setupVars, pc, loc, decodeOutstanding, encodeOutstanding,
                   outstanding, event, sent>>

\* The body returned or panicked; without a receiver the result is discarded.
SendResult(w) ==
    /\ WorkerAt(w, "run", "exit")
    /\ sent' = [sent EXCEPT ![worker[w]] = (pc[worker[w]] = "waiting")]
    /\ UNCHANGED <<setupVars, pc, loc, counters, event, queue, worker>>

\* RunningGuard::drop: the decrement, then the notification.
RunningExit(w) ==
    /\ WorkerAt(w, "exit", "notify")
    /\ running' = running - 1
    /\ UNCHANGED <<setupVars, pc, loc, decodeOutstanding, encodeOutstanding,
                   outstanding, event, queue, worker, sent>>

RunningNotify(w) ==
    /\ WorkerAt(w, "notify", "slot")
    /\ NotifyAdditional
    /\ UNCHANGED <<setupVars, pc, loc, counters, queue, worker, sent>>

\* SlotGuard::drop, the last guard of the closure.
SlotRelease(w) ==
    /\ WorkerAt(w, "slot", "idle")
    /\ worker' = [worker EXCEPT ![w] = NoCall]
    /\ outstanding' = outstanding - 1
    /\ UNCHANGED <<setupVars, pc, loc, decodeOutstanding, encodeOutstanding,
                   running, event, queue, sent>>
-----------------------------------------------------------------------------
(* Start-up and reconfiguration: apply ends by waking every admitter. *)

Configure(s) ==
    /\ \/ SetupStep(s) /\ UNCHANGED event
       \/ ApplyNotify(s) /\ note' = NotifyEvery(note) /\ UNCHANGED listeners
    /\ UNCHANGED <<pc, loc, counters, pool>>

\* The steps a call's future takes by itself once it is polled.
Admission(c) ==
    \/ AdmitEntry(c) \/ AdmitHead(c) \/ AdmitPass(c)
    \/ LoadOccupancy(c) \/ LoadReserve(c)
    \/ LoadDecode(c) \/ LoadRunning(c) \/ LoadEncode(c)
    \/ CasReserve(c) \/ CasRetry(c)
    \/ Listen(c) \/ Recheck(c) \/ Wake(c)

Spawn(c) ==
    \/ EncodeEntry(c)
    \/ SubmitAccepted(c) \/ SubmitRejected(c) \/ DropRejectedSlot(c)
    \/ Complete(c) \/ TaggedRelease(c) \/ TaggedNotify(c)

Timeout(c) == DropWaiting(c) \/ DropParked(c)

Work(w) ==
    \/ StartSkipped(w) \/ StartRunning(w) \/ SendResult(w)
    \/ RunningExit(w) \/ RunningNotify(w) \/ SlotRelease(w)

\* Every call has returned or was dropped, the pool is idle: the end of a run.
Drained ==
    /\ \A c \in Calls : pc[c] = "done"
    /\ queue = <<>> /\ \A w \in Workers : wpc[w] = "idle"
    /\ \A s \in Setters : Returned(s)
    /\ UNCHANGED vars

Next ==
    \/ \E c \in Calls : Admission(c) \/ Spawn(c) \/ Timeout(c)
    \/ \E w \in Workers : Work(w)
    \/ \E s \in Setters : Configure(s)
    \/ Drained

Spec == Init /\ [][Next]_vars

\* Executor, workers and configuring threads keep going: as long as one of them
\* can take a step, one of them does.  A timeout need not happen and nobody need
\* reconfigure the arbiter, but a configuration that began is carried through.
Progress ==
    \/ \E c \in Calls : Admission(c) \/ Spawn(c)
    \/ \E w \in Workers : Work(w)
    \/ \E s \in Setters : at[s] # "idle" /\ Configure(s)

Fairness == WF_vars(Progress)

FairSpec == Spec /\ Fairness
-----------------------------------------------------------------------------
TypeOK ==
    /\ SetupTypeOK
    /\ pc \in [Calls -> FuturePoints]
    /\ loc \in [Calls -> [pool : Nat, occ : 0..100, res : 0..100,
                          dec : Nat, run : Nat, cap : Nat \cup {NoCap}]]
    /\ decodeOutstanding \in Nat /\ encodeOutstanding \in Nat
    /\ running \in Nat /\ outstanding \in Nat
    /\ listeners \in Seq(Calls)
    /\ note \in [Calls -> Notes]
    /\ queue \in Seq(Calls)
    /\ worker \in [Workers -> Calls \cup {NoCall}]
    /\ wpc \in [Workers -> WorkerPoints]
    /\ sent \in [Calls -> BOOLEAN]

\* The calls that own a TaggedGuard, the closures that own a RunningGuard, and
\* the SlotGuards: queued, on a worker, or about to be dropped by a rejection.
Holding == {"submit", "reject", "waiting", "release"}
DecodeHolders == Standing(Decoders, pc, Holding)
EncodeHolders == Standing(Encoders, pc, Holding)
RunningWorkers == Standing(Workers, wpc, {"run", "exit"})
Rejecting == Standing(Calls, pc, {"reject"})

\* Each of the four counters equals the number of live guards behind it, in
\* every interleaving of completions, rejections, timeouts, skipped and orphaned
\* tasks: no path leaks or double-releases a slot.
CountersExact ==
    /\ decodeOutstanding = Cardinality(DecodeHolders)
    /\ encodeOutstanding = Cardinality(EncodeHolders)
    /\ running = Cardinality(RunningWorkers)
    /\ outstanding = Cardinality(Rejecting) + Len(queue) + Cardinality(BusyWorkers)

\* The queue limit bounds the tasks queued or running, however many callers
\* add to OUTSTANDING before they look at the limit.
QueueBounded ==
    QueueLimit # 0 => Len(queue) + Cardinality(BusyWorkers) <= QueueLimit

\* The compare-exchange makes the cap hard: a decode admitted under a cap never
\* takes DECODE_OUTSTANDING past the cap of its own snapshot, whatever other
\* admitters do between the loads and the exchange.
DecodeCapIsHard ==
    [][\A c \in Decoders :
          pc[c] = "cas" /\ pc'[c] = "submit" /\ loc[c].cap # NoCap
              => decodeOutstanding' <= loc[c].cap]_vars

\* Once arbitration is off and the apply that switched it off has returned, no
\* admitter is left waiting for a notification: none parks on a stale read of
\* the switch, and none that was parked was missed.
DisableReachesWaiters ==
    (~enabled /\ \A s \in Setters : at[s] # "notify")
        => \A c \in Calls : pc[c] = "parked" => note[c] \in NotifiedNotes

\* While an admitter is parked without a notification, a decode still owes one: it holds a
\* TaggedGuard that will notify when it is dropped, or a notification it will use or hand on,
\* or it is awake in admit_decode.  A notification dropped together with its listener would
\* break the chain.
WakeupOwed ==
    (\E c \in Calls : pc[c] = "parked" /\ note[c] = "waiting") =>
        \E c \in Decoders : /\ pc[c] \notin {"idle", "done"}
                            /\ ~(pc[c] = "parked" /\ note[c] = "waiting")

\* Every call returns: no decode admitter waits for a wake-up that went to
\* nobody, or to a listener that was dropped with it.
EveryCallReturns == <>(\A c \in Calls : pc[c] = "done")

\* A loosened policy reaches parked admitters at once: none sits un-notified
\* under percentages that reject it while the ones in force would admit it.
NoneStrandedUnderOldPolicy ==
    Quiescent =>
        \A c \in Decoders :
            pc[c] = "parked" /\ note[c] = "waiting" =>
                LET Admits(occ, res) ==
                        UnderCap(decodeOutstanding,
                                 DecodeAdmitCap(loc[c].pool, running, decodeOutstanding,
                                                encodeOutstanding, occ, res))
                IN  Admits(occupancyPct, reservePct) => Admits(loc[c].occ, loc[c].res)

-----------------------------------------------------------------------------
\* What the theorems need besides the invariants above: only decodes are ever
\* admitted, the exchange follows a test that passed, a parked admitter has a
\* listener, nobody has one before Listen or after the return, and an admitter
\* that passed the re-check and was not notified saw arbitration on, or an apply
\* is about to notify it.
AdmissionPoints ==
    {"head", "pass", "occ", "res", "dec", "run", "enc", "cas", "listen", "recheck", "parked"}
AdmissionOK(c) ==
    /\ pc[c] \in AdmissionPoints => c \in Decoders
    /\ pc[c] = "cas" => UnderCap(loc[c].dec, loc[c].cap)
    /\ pc[c] = "parked" => note[c] # "absent"
    /\ note[c] # "absent" => pc[c] \in {"recheck", "pass", "dec", "run", "enc", "cas", "parked"}
    /\ (note[c] = "waiting" /\ pc[c] \in {"dec", "run", "enc", "cas", "parked"})
           => enabled \/ \E s \in Setters : at[s] = "notify"
AdmissionInv == \A c \in Calls : AdmissionOK(c)

IInv == TypeOK /\ SettersInv /\ CountersExact /\ QueueBounded /\ AdmissionInv
=============================================================================
