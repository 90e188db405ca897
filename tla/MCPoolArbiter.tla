---------------------------- MODULE MCPoolArbiter ----------------------------
(***************************************************************************)
(* Instances of PoolArbiter for TLC.  A behaviour plays one scene: the     *)
(* scenes restrict who acts and fix where the behaviour starts, never what *)
(* a step does.                                                            *)
(***************************************************************************)
EXTENDS PoolArbiter

CONSTANTS d1, d2, d3, d4, d5, e1, a1, o1, n1, n2, i1, i2, w1, w2, w3, w4, w5

VARIABLE scene

callVars == <<pc, loc, counters, event, pool>>

\* Neither entry point validates its argument: out-of-range percentages reach apply.
Off == [enabled |-> FALSE, occ |-> 0, res |-> 0]
Half == [enabled |-> TRUE, occ |-> 50, res |-> 50]
Loose == [enabled |-> TRUE, occ |-> 100, res |-> 50]
Wild == [enabled |-> TRUE, occ |-> 0, res |-> 250]

LooseOnly == {Loose}
OffOnly == {Off}
ThreePolicies == {Off, Half, Wild}
-----------------------------------------------------------------------------
(* From the start of the process: the calls that set up pool and arbiter race with *)
(* each other, or tasks come while one thread initializes the pool.                 *)

StartInit ==
    /\ Init /\ scene \in {"setup", "tasks"}
    /\ scene = "tasks" => size[i1] = 2 /\ size[i2] = 0 /\ \A s \in DOMAIN policy : policy[s] = Off

StartDrained ==
    /\ \A c \in Calls : pc[c] = "done"
    /\ queue = <<>> /\ BusyWorkers = {} /\ Returned(i1)
    /\ UNCHANGED vars

StartNext ==
    /\ UNCHANGED scene
    /\ \/ scene = "setup" /\ SetupNext /\ UNCHANGED callVars
       \/ /\ scene = "tasks" /\ (Next \/ StartDrained)
          /\ \A s \in Setters \ {i1} : at'[s] = "idle"

StartSpec == StartInit /\ [][StartNext]_<<vars, scene>>
-----------------------------------------------------------------------------
(* With a backlog: three decodes were admitted while no encode was outstanding.  An *)
(* encode is executing and, where there are more workers, two of the decodes are;   *)
(* the others have been computed but their callers have not looked yet.  With one   *)
(* encode outstanding, DECODE_FLOOD_FACTOR makes a fourth decode the first that can *)
(* be throttled at all.                                                             *)

Backlog == {d1, d2, d3}

Backlogged(threads, executing) ==
    /\ poolThreadCount = threads /\ built = threads
    /\ enabled = DefaultPolicy.enabled /\ configured = FALSE
    /\ occupancyPct = DefaultPolicy.occ /\ reservePct = DefaultPolicy.res
    /\ at = [s \in Setters |-> "idle"]
    /\ size \in [Initializers -> PoolSizes]
    /\ policy \in [Nodes \cup Overriders -> Policies]
    /\ pc = [c \in Calls |-> IF c \in Backlog \cup {e1} THEN "waiting" ELSE "idle"]
    /\ loc = [c \in Calls |-> NoLocals]
    /\ decodeOutstanding = 3 /\ encodeOutstanding = 1
    /\ running = Cardinality(Range(executing) \ {NoCall})
    /\ outstanding = Cardinality(Range(executing) \ {NoCall})
    /\ listeners = <<>>
    /\ note = [c \in Calls |-> "absent"]
    /\ queue = <<>>
    /\ worker = executing
    /\ wpc = [w \in Workers |-> IF executing[w] = NoCall THEN "idle" ELSE "run"]
    /\ sent = [c \in Calls |-> c \in Backlog \ Range(executing)]

On(a, b) == [w \in Workers |-> CASE w = w1 -> e1 [] w = w2 -> a [] w = w3 -> b [] OTHER -> NoCall]

LateInit == scene = "late" /\ Backlogged(InitialPool, On(d1, d2))
LateNext == Next /\ UNCHANGED scene
LateSpec == LateInit /\ [][LateNext]_<<vars, scene>>
FairLateSpec == LateSpec /\ Fairness

\* A pool of five with two decodes executing, whose callers wait for ever, or a pool of
\* one, whose late callers may give up.
ThrottledInit ==
    \/ scene = "five" /\ \E a, b \in Backlog : a # b /\ Backlogged(5, On(a, b))
    \/ scene = "one" /\ Backlogged(1, On(NoCall, NoCall))

ThrottledNext ==
    /\ Next /\ UNCHANGED scene
    /\ scene = "five" => \A c \in MayDrop : ~Timeout(c)
    /\ scene = "one" => \A w \in Workers \ {w1} : wpc'[w] = "idle"

ThrottledSpec == ThrottledInit /\ [][ThrottledNext]_<<vars, scene>>

\* Stop exploring once the pool of five has room or the flood is over: without a
\* reconfiguration nothing is throttled from then on.
Saturated ==
    scene = "five" =>
        /\ decodeOutstanding >= 3 /\ encodeOutstanding >= 1
        /\ running >= OccupancyThreshold(5, DefaultPolicy.occ)

WorkerSymmetry == Permutations(Workers)
ThrottledSymmetry ==
    Permutations(Backlog) \cup Permutations({d4, d5}) \cup Permutations({w4, w5})
=============================================================================
