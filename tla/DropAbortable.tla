---------------------------- MODULE DropAbortable ----------------------------
(***************************************************************************)
(* DropAbortable over the receiver of a bounded channel: the task that     *)
(* polls it, the senders, and the owner of the abort handle.               *)
(*                                                                         *)
(* futures::stream::Abortable checks its flag, polls the receiver and,     *)
(* when that is Pending, registers its waker and checks the flag again.    *)
(***************************************************************************)
EXTENDS Naturals, FiniteSets

CONSTANTS
    Senders,
    Room        \* capacity of the channel

ASSUME RoomAssumption == Room \in Nat \ {0}

VARIABLES
    inner,      \* DropAbortable::inner is Some
    stop,       \* the flag behind the AbortHandle
    filled,     \* items in the channel
    sender,     \* of a sender: "idle", "blocked", "refused" or "done"
    poller,     \* where the polling task is: "awake", "asleep", "register" or "over"
    armed       \* the waker is registered with the AbortHandle

abortableVars == <<inner, stop, filled, sender, poller, armed>>

AbortableInit ==
    /\ inner = TRUE /\ stop = FALSE /\ filled = 0
    /\ sender = [s \in Senders |-> "idle"]
    /\ poller = "awake" /\ armed = FALSE

\* Every sender is gone.
Silent == \A s \in Senders : sender[s] \in {"done", "refused"}

\* The channel: a send waits for room and fails when the receiver is gone.
Send(s) ==
    /\ sender[s] \in {"idle", "blocked"}
    /\ LET how == IF ~inner THEN "refused" ELSE IF filled < Room THEN "idle" ELSE "blocked"
       IN  /\ sender' = [sender EXCEPT ![s] = how]
           /\ filled' = IF how = "idle" THEN filled + 1 ELSE filled
           /\ poller' = IF how = "idle" /\ poller = "asleep" THEN "awake" ELSE poller
    /\ UNCHANGED <<inner, stop, armed>>

StopSending(s) ==
    /\ sender[s] = "idle" /\ sender' = [sender EXCEPT ![s] = "done"]
    /\ poller' = IF poller = "asleep" /\ Silent' THEN "awake" ELSE poller
    /\ UNCHANGED <<inner, stop, filled, armed>>

\* AbortHandle::abort sets the flag and wakes the registered task.
FireHandle ==
    /\ ~stop /\ stop' = TRUE
    /\ poller' = IF poller = "asleep" /\ armed THEN "awake" ELSE poller
    /\ armed' = FALSE
    /\ UNCHANGED <<inner, filled, sender>>

\* Mutant: a plain futures::stream::Abortable, which keeps the receiver.
PollEndsKeeping ==
    /\ poller' = "over"
    /\ UNCHANGED inner

\* Ready(None): the Abortable is dropped, and with it the receiver.
PollEnds ==
    /\ poller' = "over" /\ inner' = FALSE

\* poll_next takes an item, ends, or finds nothing and goes on to register.
PollNext ==
    /\ poller = "awake"
    /\ \/ /\ ~stop /\ filled > 0
          /\ filled' = filled - 1
          /\ UNCHANGED <<inner, poller>>
       \/ /\ stop \/ (filled = 0 /\ Silent)
          /\ PollEnds /\ UNCHANGED filled
       \/ /\ ~stop /\ filled = 0 /\ ~Silent
          /\ poller' = "register" /\ UNCHANGED <<inner, filled>>
    /\ UNCHANGED <<stop, sender, armed>>

\* The waker is registered; a flag set since the first look, or an item sent, is seen.
Register ==
    /\ poller = "register"
    /\ armed' = TRUE
    /\ IF stop THEN PollEnds
       ELSE /\ poller' = IF filled > 0 \/ Silent THEN "awake" ELSE "asleep"
            /\ UNCHANGED inner
    /\ UNCHANGED <<stop, filled, sender>>

AbortableNext ==
    \/ \E s \in Senders : Send(s) \/ StopSending(s)
    \/ FireHandle \/ PollNext \/ Register

-----------------------------------------------------------------------------
\* Firing the handle closes the channel: no sender stays blocked on a receiver that will
\* never be polled again, as it would with a plain Abortable.
AbortReleasesSenders == \A s \in Senders : stop /\ sender[s] = "blocked" ~> sender[s] # "blocked"
=============================================================================
