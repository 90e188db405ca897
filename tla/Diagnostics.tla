----------------------------- MODULE Diagnostics -----------------------------
(***************************************************************************)
(* The counters of runtime::diagnostics: futures wrapped by one            *)
(* ConcurrentDiagnostics, each on a thread of its own, and a future        *)
(* wrapped by PollDiagnosticFuture, with the rate limit they share the     *)
(* code of.  One step per atomic operation.                                *)
(***************************************************************************)
EXTENDS Integers, FiniteSets

CONSTANTS
    Children,           \* futures passed through wrap
    Poller,             \* the task of the PollDiagnosticFuture
    EnvWarnAfter, EnvWarnEvery,     \* what the environment sets, 0 for nothing usable
    DefaultWarnAfter, DefaultWarnEvery,
    MaxTime, MaxPolls   \* bounds on the clock and on the polls

ASSUME DiagnosticsAssumption ==
    /\ Poller \notin Children /\ IsFiniteSet(Children)
    /\ {EnvWarnAfter, EnvWarnEvery, MaxTime, MaxPolls} \subseteq Nat
    /\ {DefaultWarnAfter, DefaultWarnEvery} \subseteq Nat \ {0}

\* config: a value that is missing, does not parse or is zero gives the default.
Configured(value, default) == IF value > 0 THEN value ELSE default
WarnAfter == Configured(EnvWarnAfter, DefaultWarnAfter)
WarnEvery == Configured(EnvWarnEvery, DefaultWarnEvery)

VARIABLES
    diagnosed,      \* enabled() when the wrappers were made
    now,            \* time since they were
    started, completed, dropped, inFlight,  \* ConcurrentDiagnosticState
    totalPolls,     \* PollDiagnosticState::total_polls
    lastWarn,       \* last_warn_nanos of either state
    step,           \* where each future is
    elapsed, last   \* its local variables in should_warn

diagnosticVars == <<diagnosed, now, started, completed, dropped, inFlight, totalPolls,
                    lastWarn, step, elapsed, last>>
counters == <<started, completed, dropped, inFlight, totalPolls>>

Actors == Children \cup {Poller}
Meter(a) == IF a = Poller THEN "polls" ELSE "children"

DiagnosticsInit ==
    /\ diagnosed \in BOOLEAN /\ now = 0
    /\ started = 0 /\ completed = 0 /\ dropped = 0 /\ inFlight = 0 /\ totalPolls = 0
    /\ lastWarn = [m \in {"polls", "children"} |-> 0]
    /\ step = [a \in Actors |-> IF a = Poller THEN "live" ELSE "none"]
    /\ elapsed = [a \in Actors |-> 0] /\ last = [a \in Actors |-> 0]

Go(a, from, to) == step[a] = from /\ step' = [step EXCEPT ![a] = to]
Still == UNCHANGED <<diagnosed, now, lastWarn, elapsed, last>>

Tick ==
    /\ now < MaxTime /\ now' = now + 1
    /\ UNCHANGED <<diagnosed, counters, lastWarn, step, elapsed, last>>

\* wrap.
WrapStarted(c) ==
    /\ Go(c, "none", "wrapping")
    /\ started' = IF diagnosed THEN started + 1 ELSE started
    /\ UNCHANGED <<completed, dropped, inFlight, totalPolls>> /\ Still

WrapInFlight(c) ==
    /\ Go(c, "wrapping", "live")
    /\ inFlight' = IF diagnosed THEN inFlight + 1 ELSE inFlight
    /\ UNCHANGED <<started, completed, dropped, totalPolls>> /\ Still

\* Mutant: Drop does not look at the flag that mark_finished swapped.
DropFutureTwice(c) ==
    /\ \/ Go(c, "live", "dropping") /\ inFlight' = IF diagnosed THEN inFlight - 1 ELSE inFlight
       \/ Go(c, "finished", "dropping") /\ inFlight' = IF diagnosed THEN inFlight - 1 ELSE inFlight
    /\ UNCHANGED <<started, completed, dropped, totalPolls>> /\ Still

\* mark_finished swaps finished, once; the first to do so takes the child out of flight,
\* after a poll that was Ready or in Drop.
PollReady(c) ==
    /\ c \in Children /\ Go(c, "live", "completing")
    /\ inFlight' = IF diagnosed THEN inFlight - 1 ELSE inFlight
    /\ UNCHANGED <<started, completed, dropped, totalPolls>> /\ Still

DropFuture(c) ==
    /\ c \in Children
    /\ \/ Go(c, "live", "dropping") /\ inFlight' = IF diagnosed THEN inFlight - 1 ELSE inFlight
       \/ Go(c, "finished", "gone") /\ UNCHANGED inFlight
    /\ UNCHANGED <<started, completed, dropped, totalPolls>> /\ Still

CountDropped(c) ==
    /\ Go(c, "dropping", "gone")
    /\ dropped' = IF diagnosed THEN dropped + 1 ELSE dropped
    /\ UNCHANGED <<started, completed, inFlight, totalPolls>> /\ Still

\* The warning is due when the count has reached its threshold; started_at.elapsed() is
\* read before should_warn.
Measure(a, from, back, count) ==
    /\ Go(a, from, IF diagnosed /\ count >= WarnAfter THEN "load" ELSE back)
    /\ elapsed' = [elapsed EXCEPT ![a] = now]
    /\ UNCHANGED <<diagnosed, now, lastWarn, last>>

CountCompleted(c) ==
    /\ completed' = IF diagnosed THEN completed + 1 ELSE completed
    /\ Measure(c, "completing", "finished", completed')
    /\ UNCHANGED <<started, dropped, inFlight, totalPolls>>

PollCounted ==
    /\ totalPolls < MaxPolls
    /\ totalPolls' = IF diagnosed THEN totalPolls + 1 ELSE totalPolls
    /\ Measure(Poller, "live", "live", totalPolls')
    /\ UNCHANGED <<started, completed, dropped, inFlight>>

\* should_warn: the load, with its early return, and the compare_exchange, which on failure
\* goes back to the load.
After(a) == IF a = Poller THEN "live" ELSE "finished"

LoadLast(a) ==
    LET seen == lastWarn[Meter(a)]
        since == IF elapsed[a] > seen THEN elapsed[a] - seen ELSE 0
    IN  /\ Go(a, "load", IF since < WarnEvery THEN After(a) ELSE "exchange")
        /\ last' = [last EXCEPT ![a] = seen]
        /\ UNCHANGED <<diagnosed, now, counters, lastWarn, elapsed>>

\* Mutant: a plain store.
ExchangeBlindly(a) ==
    /\ Go(a, "exchange", After(a)) /\ lastWarn' = [lastWarn EXCEPT ![Meter(a)] = elapsed[a]]
    /\ UNCHANGED <<diagnosed, now, counters, elapsed, last>>

Exchange(a) ==
    /\ \/ /\ lastWarn[Meter(a)] = last[a]
          /\ Go(a, "exchange", After(a)) /\ lastWarn' = [lastWarn EXCEPT ![Meter(a)] = elapsed[a]]
       \/ /\ lastWarn[Meter(a)] # last[a]
          /\ Go(a, "exchange", "load") /\ UNCHANGED lastWarn
    /\ UNCHANGED <<diagnosed, now, counters, elapsed, last>>

DiagnosticsNext ==
    \/ Tick \/ PollCounted
    \/ \E c \in Children :
         \/ WrapStarted(c) \/ WrapInFlight(c) \/ PollReady(c) \/ DropFuture(c)
         \/ CountDropped(c) \/ CountCompleted(c)
    \/ \E a \in Actors : LoadLast(a) \/ Exchange(a)

DiagnosticsSpec == DiagnosticsInit /\ [][DiagnosticsNext]_diagnosticVars
-----------------------------------------------------------------------------
(* Properties. *)

At(steps) == Cardinality({c \in Children : step[c] \in steps})

\* Whether a child is completed, dropped, or completed and then dropped, each of the four
\* counters counts it once and in_flight, an unsigned counter, never wraps: between the
\* atomic operations they differ by exactly the children caught there.
CountersBalance ==
    diagnosed =>
        /\ started = At({"wrapping", "live", "completing", "dropping", "load", "exchange", "finished", "gone"})
        /\ inFlight = At({"live"})
        /\ completed + dropped = At({"load", "exchange", "finished", "gone"})

\* Warnings "are rate-limited by HOPR_RUNTIME_POLL_WARN_EVERY": two of one wrapper are at
\* least that far apart, though its children race with times read before the exchange.
WarningsSpaced ==
    [][\A m \in DOMAIN lastWarn :
          lastWarn'[m] # lastWarn[m] => lastWarn'[m] >= lastWarn[m] + WarnEvery]_diagnosticVars
=============================================================================
