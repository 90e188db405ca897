--------------------------- MODULE ForwardChannel ---------------------------
(***************************************************************************)
(* ForwardWithTimeout over TimeoutSink<CrossfireSink>: several tasks, each *)
(* forwarding its stream into a clone of one bounded channel's sender.     *)
(*                                                                         *)
(* A task is polled only after something woke it.  A poll is cut at every  *)
(* operation on the channel, the timer or the stream, so the receiver and  *)
(* the other tasks can act between any two of them.                        *)
(***************************************************************************)
EXTENDS Naturals, Sequences, SequencesExt, FiniteSets

CONSTANTS
    Forwarders,
    Items,      \* the most items each stream yields
    Capacity    \* of the channel

ASSUME ForwardAssumption == Items \in [Forwarders -> Nat] /\ Capacity \in Nat \ {0}

VARIABLES
    offered, finish, taken,  \* the streams; the items of one are 1, 2, ...
    held,      \* ForwardWithTimeout::buffered_item, 0 when None
    slot,      \* the item CrossfireSink holds, 0 when none
    inFlight,  \* the slot is a send future (pending), not buffered
    timer,     \* TimeoutSink::timer: "none", "armed" or "elapsed"
    timed,     \* the item the timer was armed for
    pc,        \* where the task is in ForwardWithTimeout::poll
    woken,     \* the task is scheduled
    listening, \* the stream holds the task's waker
    waiters,   \* the tasks whose send futures are registered with the channel
    chan, gone, delivered

streamVars == <<offered, finish>>
sinkVars == <<slot, inFlight>>
vars == <<offered, finish, taken, held, slot, inFlight, timer, timed, pc, woken,
          listening, waiters, chan, gone, delivered>>

\* The entries of a queue that are in S, in their order.  (SelectSeq, as a recursion on
\* the length, which the proofs can unfold.)
KeptUpTo(q, S) ==
    LET kept[n \in Nat] ==
            IF n = 0 THEN <<>>
            ELSE IF q[n] \in S THEN Append(kept[n - 1], q[n]) ELSE kept[n - 1]
    IN  kept
Keep(q, S) == KeptUpTo(q, S)[Len(q)]

Init ==
    /\ offered = [f \in Forwarders |-> 0]
    /\ finish = [f \in Forwarders |-> "open"]
    /\ taken = [f \in Forwarders |-> 0]
    /\ held = [f \in Forwarders |-> 0]
    /\ slot = [f \in Forwarders |-> 0]
    /\ inFlight = [f \in Forwarders |-> FALSE]
    /\ timer = [f \in Forwarders |-> "none"]
    /\ timed = [f \in Forwarders |-> 0]
    /\ pc = [f \in Forwarders |-> "parked"]
    /\ woken = [f \in Forwarders |-> TRUE]
    /\ listening = [f \in Forwarders |-> FALSE]
    /\ waiters = <<>>
    /\ chan = <<>> /\ gone = FALSE
    /\ delivered = [f \in Forwarders |-> <<>>]

Goto(f, from, to) == pc[f] = from /\ pc' = [pc EXCEPT ![f] = to]
-----------------------------------------------------------------------------
(* The streams, the receiver and the clock. *)

WakeListener(f) ==
    /\ woken' = [woken EXCEPT ![f] = @ \/ listening[f]]
    /\ listening' = [listening EXCEPT ![f] = FALSE]

Offer(f) ==
    /\ finish[f] = "open" /\ offered[f] < Items[f]
    /\ offered' = [offered EXCEPT ![f] = @ + 1]
    /\ WakeListener(f)
    /\ UNCHANGED <<finish, taken, held, sinkVars, timer, timed, pc, waiters,
                   chan, gone, delivered>>

End(f) ==
    /\ finish[f] = "open"
    /\ \E how \in {"end", "error"} : finish' = [finish EXCEPT ![f] = how]
    /\ WakeListener(f)
    /\ UNCHANGED <<offered, taken, held, sinkVars, timer, timed, pc, waiters,
                   chan, gone, delivered>>

\* The channel wakes the sender that has waited longest.
WakeSender(queue) ==
    /\ waiters' = IF queue = <<>> THEN <<>> ELSE Tail(queue)
    /\ woken' = [f \in Forwarders |-> woken[f] \/ (queue # <<>> /\ f = Head(queue))]

Receive ==
    /\ ~gone /\ chan # <<>>
    /\ chan' = Tail(chan)
    /\ delivered' = [delivered EXCEPT ![Head(chan)[1]] = Append(@, Head(chan))]
    /\ WakeSender(waiters)
    /\ UNCHANGED <<streamVars, taken, held, sinkVars, timer, timed, pc, listening, gone>>

DropReceiver ==
    /\ ~gone /\ gone' = TRUE
    /\ waiters' = <<>>
    /\ woken' = [f \in Forwarders |-> woken[f] \/ f \in Range(waiters)]
    /\ UNCHANGED <<streamVars, taken, held, sinkVars, timer, timed, pc, listening,
                   chan, delivered>>

\* A timer that elapses just before it is polled has no waker yet.
Elapse(f) ==
    /\ timer[f] = "armed"
    /\ timer' = [timer EXCEPT ![f] = "elapsed"]
    /\ woken' = [woken EXCEPT ![f] = @ \/ pc[f] # "timer"]
    /\ UNCHANGED <<streamVars, taken, held, sinkVars, timed, pc, listening, waiters,
                   chan, gone, delivered>>
-----------------------------------------------------------------------------
(* One poll of a forwarding task. *)

\* poll is called: an item in hand is offered to the sink before anything else.
Poll(f) ==
    /\ woken[f] /\ Goto(f, "parked", IF held[f] # 0 THEN "ready" ELSE "next")
    /\ woken' = [woken EXCEPT ![f] = FALSE]
    /\ UNCHANGED <<streamVars, taken, held, sinkVars, timer, timed, listening, waiters,
                   chan, gone, delivered>>

\* Where a task goes when the sink has nothing left to send: the item in hand is
\* started, a flush ends the poll with Pending, a close ends the forwarding.
AfterSink(f) ==
    /\ pc[f] \in {"ready", "flush", "close"}
    /\ pc' = [pc EXCEPT ![f] = CASE @ = "ready" -> "next" [] @ = "flush" -> "parked"
                                 [] OTHER -> "done"]

\* Mutant: Ready leaves the timer running.
StartSendKeepsTimer(f) ==
    /\ AfterSink(f)
    /\ slot' = [slot EXCEPT ![f] = IF pc[f] = "ready" THEN held[f] ELSE 0]
    /\ inFlight' = [inFlight EXCEPT ![f] = FALSE]
    /\ held' = [held EXCEPT ![f] = 0]
    /\ UNCHANGED <<timer, timed>>

\* TimeoutSink::poll_ready clears its timer on Ready, then start_send takes the
\* item in hand.  poll_flush and poll_close leave the timer alone.
StartSend(f) ==
    /\ AfterSink(f)
    /\ slot' = [slot EXCEPT ![f] = IF pc[f] = "ready" THEN held[f] ELSE 0]
    /\ inFlight' = [inFlight EXCEPT ![f] = FALSE]
    /\ held' = [held EXCEPT ![f] = 0]
    /\ timer' = [timer EXCEPT ![f] = IF pc[f] = "ready" THEN "none" ELSE @]
    /\ timed' = [timed EXCEPT ![f] = IF pc[f] = "ready" THEN 0 ELSE @]

\* The forwarding ends with an error and its future is dropped: a registered send
\* future leaves the channel's list, a woken one passes its wake-up on.
Abandon(f) ==
    /\ pc' = [pc EXCEPT ![f] = "failed"]
    /\ slot' = [slot EXCEPT ![f] = 0]
    /\ inFlight' = [inFlight EXCEPT ![f] = FALSE]
    /\ held' = [held EXCEPT ![f] = 0]
    /\ timer' = [timer EXCEPT ![f] = "none"]
    /\ timed' = [timed EXCEPT ![f] = 0]
    /\ IF inFlight[f] /\ f \notin Range(waiters)
       THEN WakeSender(waiters)
       ELSE waiters' = Keep(waiters, Forwarders \ {f}) /\ UNCHANGED woken
    /\ UNCHANGED <<streamVars, taken, listening, chan, gone, delivered>>

Polling(f) == pc[f] \in {"ready", "flush", "close"}
Full == Len(chan) >= Capacity

\* CrossfireSink::poll_ready with nothing to send.
SinkIdle(f) ==
    /\ slot[f] = 0 /\ StartSend(f)
    /\ UNCHANGED <<streamVars, taken, woken, listening, waiters, chan, gone, delivered>>

\* try_send, or the poll of the send future, places the item.
SinkSend(f) ==
    /\ slot[f] # 0 /\ ~gone /\ ~Full /\ StartSend(f)
    /\ chan' = Append(chan, <<f, slot[f]>>)
    /\ waiters' = Keep(waiters, Forwarders \ {f})
    /\ UNCHANGED <<streamVars, taken, woken, listening, gone, delivered>>

SinkDisconnected(f) == Polling(f) /\ slot[f] # 0 /\ gone /\ Abandon(f)

\* Where a poll of the sink that is Pending leaves the task.
AfterPending(f) == pc' = [pc EXCEPT ![f] = IF @ = "ready" THEN "timer" ELSE "parked"]

\* Mutant: Pending is returned without a poll of the new future.
TrySendFullParks(f) ==
    /\ Polling(f) /\ slot[f] # 0 /\ ~inFlight[f] /\ ~gone /\ Full
    /\ inFlight' = [inFlight EXCEPT ![f] = TRUE]
    /\ AfterPending(f)
    /\ UNCHANGED <<streamVars, taken, held, slot, timer, timed, woken, listening,
                   waiters, chan, gone, delivered>>

\* try_send finds the channel full: the item moves to a send future, polled next.
TrySendFull(f) ==
    /\ Polling(f) /\ slot[f] # 0 /\ ~inFlight[f] /\ ~gone /\ Full
    /\ inFlight' = [inFlight EXCEPT ![f] = TRUE]
    /\ UNCHANGED <<streamVars, taken, held, slot, timer, timed, pc, woken, listening,
                   waiters, chan, gone, delivered>>

\* The send future is Pending and registered.
SendPending(f) ==
    /\ Polling(f) /\ inFlight[f] /\ ~gone /\ Full
    /\ waiters' = IF f \in Range(waiters) THEN waiters ELSE Append(waiters, f)
    /\ AfterPending(f)
    /\ UNCHANGED <<streamVars, taken, held, sinkVars, timer, timed, woken, listening,
                   chan, gone, delivered>>

\* TimeoutSink::poll_ready after a Pending sink.
ArmTimer(f) ==
    /\ pc[f] = "timer" /\ timer[f] = "none"
    /\ timer' = [timer EXCEPT ![f] = "armed"]
    /\ timed' = [timed EXCEPT ![f] = held[f]]
    /\ UNCHANGED <<streamVars, taken, held, sinkVars, pc, woken, listening, waiters,
                   chan, gone, delivered>>

TimerPending(f) ==
    /\ timer[f] = "armed" /\ Goto(f, "timer", "parked")
    /\ UNCHANGED <<streamVars, taken, held, sinkVars, timer, timed, woken, listening,
                   waiters, chan, gone, delivered>>

\* Timeout: the item in hand is discarded and the stream is polled for the next.
TimedOut(f) ==
    /\ timer[f] = "elapsed" /\ Goto(f, "timer", "next")
    /\ timer' = [timer EXCEPT ![f] = "none"]
    /\ timed' = [timed EXCEPT ![f] = 0]
    /\ held' = [held EXCEPT ![f] = 0]
    /\ UNCHANGED <<streamVars, taken, sinkVars, woken, listening, waiters, chan, gone,
                   delivered>>

NextItem(f) ==
    /\ taken[f] < offered[f] /\ Goto(f, "next", "ready")
    /\ taken' = [taken EXCEPT ![f] = @ + 1]
    /\ held' = [held EXCEPT ![f] = taken'[f]]
    /\ UNCHANGED <<streamVars, sinkVars, timer, timed, woken, listening, waiters,
                   chan, gone, delivered>>

\* Mutant: the end of the stream ends the forwarding without a flush.
NextNoneUnflushed(f) ==
    /\ taken[f] = offered[f] /\ finish[f] = "end" /\ Goto(f, "next", "done")
    /\ slot' = [slot EXCEPT ![f] = 0]
    /\ inFlight' = [inFlight EXCEPT ![f] = FALSE]
    /\ UNCHANGED <<streamVars, taken, held, timer, timed, woken, listening, waiters,
                   chan, gone, delivered>>

NextNone(f) ==
    /\ taken[f] = offered[f] /\ finish[f] = "end" /\ Goto(f, "next", "close")
    /\ UNCHANGED <<streamVars, taken, held, sinkVars, timer, timed, woken, listening,
                   waiters, chan, gone, delivered>>

NextError(f) ==
    /\ pc[f] = "next" /\ taken[f] = offered[f] /\ finish[f] = "error"
    /\ Abandon(f)

\* Mutant: a stream without an item is not asked to wake the task.
NextPendingUnregistered(f) ==
    /\ taken[f] = offered[f] /\ finish[f] = "open" /\ Goto(f, "next", "flush")
    /\ UNCHANGED <<streamVars, taken, held, sinkVars, timer, timed, woken, listening,
                   waiters, chan, gone, delivered>>

NextPending(f) ==
    /\ taken[f] = offered[f] /\ finish[f] = "open" /\ Goto(f, "next", "flush")
    /\ listening' = [listening EXCEPT ![f] = TRUE]
    /\ UNCHANGED <<streamVars, taken, held, sinkVars, timer, timed, woken, waiters,
                   chan, gone, delivered>>

Task(f) ==
    \/ Poll(f) \/ SinkIdle(f) \/ SinkSend(f) \/ SinkDisconnected(f)
    \/ TrySendFull(f) \/ SendPending(f)
    \/ ArmTimer(f) \/ TimerPending(f) \/ TimedOut(f)
    \/ NextItem(f) \/ NextNone(f) \/ NextError(f) \/ NextPending(f)

Next ==
    \/ \E f \in Forwarders : Task(f) \/ Offer(f) \/ End(f) \/ Elapse(f)
    \/ Receive \/ DropReceiver

Spec == Init /\ [][Next]_vars

\* A woken task is polled, an armed timer elapses.  The receiver may stall and the
\* streams may stay silent.
FairSpec == Spec /\ \A f \in Forwarders : WF_vars(Task(f)) /\ WF_vars(Elapse(f))
-----------------------------------------------------------------------------
Points == {"parked", "ready", "timer", "next", "flush", "close", "done", "failed"}

\* The shape of the state.  A task has no item in hand outside poll_ready, and a
\* sink reaches start_send empty (its debug_assert).
ForwardTypeOK ==
    /\ finish \in [Forwarders -> {"open", "end", "error"}]
    /\ \A f \in Forwarders :
          /\ offered[f] \in 0..Items[f] /\ taken[f] \in 0..offered[f]
          /\ {held[f], slot[f], timed[f]} \subseteq 0..taken[f]
          /\ held[f] # 0 => pc[f] \in {"parked", "ready", "timer"}
          /\ inFlight[f] => slot[f] # 0
    /\ inFlight \in [Forwarders -> BOOLEAN]
    /\ timer \in [Forwarders -> {"none", "armed", "elapsed"}]
    /\ pc \in [Forwarders -> Points]
    /\ woken \in [Forwarders -> BOOLEAN] /\ listening \in [Forwarders -> BOOLEAN]
    /\ waiters \in Seq(Forwarders)
    /\ chan \in Seq(Forwarders \X Nat) /\ Len(chan) <= Capacity
    /\ gone \in BOOLEAN
    /\ delivered \in [Forwarders -> Seq(Forwarders \X Nat)]

\* Every item gets a full timeout of its own: a running timer was armed for the
\* item in hand, never for an earlier one (TimeoutSink::poll_ready clears it on
\* Ready and on Timeout).
OwnTimer ==
    /\ ForwardTypeOK
    /\ \A f \in Forwarders : timer[f] # "none" => held[f] = timed[f]

\* What is under way for a forwarder: its items in the channel, the one its sink
\* holds and the one in hand.
Present(f, item) == IF item = 0 THEN <<>> ELSE <<(<<f, item>>)>>
Transit(f) ==
    Keep(chan, {f} \X Nat) \o Present(f, slot[f]) \o Present(f, held[f])
Phase(f) == CASE pc[f] = "done" -> "ok" [] pc[f] = "failed" -> "failed" [] OTHER -> "open"

Relay == INSTANCE LossyRelay WITH
    transit <- [f \in Forwarders |-> Transit(f)],
    phase <- [f \in Forwarders |-> Phase(f)]

\* ForwardWithTimeout, TimeoutSink, CrossfireSink and the channel together are a
\* LossyRelay: order kept per stream, only the newest item ever timed out, and Ok
\* only when everything else reached the channel (poll_close flushes).
IsLossyRelay == Relay!Spec

\* A receiver that stalls cannot stop a stream from being consumed: every item on
\* offer is eventually taken, or the forwarding ends in an error.
StreamIsDrained ==
    \A f \in Forwarders : \A i \in 1..Items[f] :
        (offered[f] >= i) ~> (taken[f] >= i \/ pc[f] = "failed")

\* If the receiver keeps emptying the channel, or is dropped, a forwarder whose
\* stream has ended returns: no wake-up of a send future is lost.
ForwardingEnds ==
    []<>(chan = <<>> \/ gone) =>
        \A f \in Forwarders : (finish[f] # "open") ~> (pc[f] \in {"done", "failed"})
=============================================================================
