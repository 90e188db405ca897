----------------------------- MODULE ArbiterSetup -----------------------------
(***************************************************************************)
(* Start-up and live reconfiguration of the shared pool: init_thread_pool  *)
(* (parallelize/mod.rs) and with_arbitration / with_arbitration_once /     *)
(* apply (parallelize/cpu/arbitration.rs).  Every call is made by a thread *)
(* of its own and every atomic access is a step of its own.  The last      *)
(* store of apply is followed by a notification of the parked decode       *)
(* admitters: PoolArbiter adds that effect to the step ApplyNotify.        *)
(***************************************************************************)
EXTENDS AdmissionPolicy, FiniteSets

CONSTANTS
    Initializers,    \* threads that call init_thread_pool once
    Nodes,           \* threads that call with_arbitration_once once
    Overriders,      \* threads that call with_arbitration once
    PoolSizes,       \* the sizes init_thread_pool is called with
    Policies,        \* the ArbitrationConfigs: [enabled, occ, res]
    InitialPool,     \* threads the pool was built with before, 0 for none
    DefaultThreads   \* size rayon gives a pool built on first use

Setters == Initializers \cup Nodes \cup Overriders

ASSUME SetupAssumption ==
    /\ Initializers \cap Nodes = {}
    /\ Initializers \cap Overriders = {}
    /\ Nodes \cap Overriders = {}
    /\ PoolSizes \subseteq Nat
    /\ Policies \subseteq [enabled : BOOLEAN, occ : Nat, res : Nat]
    /\ InitialPool \in Nat
    /\ DefaultThreads \in Nat \ {0}

VARIABLES
    poolThreadCount,   \* POOL_THREAD_COUNT
    built,             \* threads rayon's global pool really has, 0: not built
    enabled,           \* ARBITRATION_ENABLED
    occupancyPct,      \* ARBITRATION_OCCUPANCY_PCT
    reservePct,        \* ARBITRATION_ENCODE_RESERVE_PCT
    configured,        \* ARBITRATION_CONFIGURED
    at,                \* control point of each setter
    size,              \* argument of each init_thread_pool
    policy             \* argument of each with_arbitration(_once)

policyVars == <<enabled, occupancyPct, reservePct, configured>>
poolVars == <<poolThreadCount, built>>
args == <<size, policy>>
setupVars == <<poolVars, policyVars, at, args>>

SetterPoints == {"idle", "build", "occ", "res", "enable", "disable",
                 "notify", "mark", "done", "refused", "failed"}

DefaultPolicy == [enabled |-> TRUE, occ |-> 75, res |-> 50]

SetupInit ==
    /\ poolThreadCount = InitialPool
    /\ built = InitialPool
    /\ enabled = DefaultPolicy.enabled
    /\ occupancyPct = DefaultPolicy.occ
    /\ reservePct = DefaultPolicy.res
    /\ configured = FALSE
    /\ at = [s \in Setters |-> "idle"]
    /\ size \in [Initializers -> PoolSizes]
    /\ policy \in [Nodes \cup Overriders -> Policies]

Goto(s, from, to) ==
    /\ at[s] = from
    /\ at' = [at EXCEPT ![s] = to]
    /\ UNCHANGED args
-----------------------------------------------------------------------------
\* init_thread_pool: the requested size is published before the build.
InitStoreCount(s) ==
    /\ s \in Initializers
    /\ Goto(s, "idle", "build")
    /\ poolThreadCount' = size[s]
    /\ UNCHANGED <<built, policyVars>>

\* build_global succeeds for the first builder of the process only; rayon
\* takes the size 0 for its default.
InitBuild(s) ==
    /\ \/ /\ built = 0
          /\ Goto(s, "build", "done")
          /\ built' = IF size[s] = 0 THEN DefaultThreads ELSE size[s]
       \/ built # 0 /\ Goto(s, "build", "failed") /\ UNCHANGED built
    /\ UNCHANGED <<poolThreadCount, policyVars>>

\* rayon builds the global pool with its default size on the first spawn.
BuiltOnUse == IF built = 0 THEN DefaultThreads ELSE built

\* Where apply starts for an argument.
ApplyEntry(p) == IF p.enabled THEN "occ" ELSE "disable"

\* with_arbitration: straight into apply.
OverrideStart(s) ==
    /\ s \in Overriders
    /\ Goto(s, "idle", ApplyEntry(policy[s]))
    /\ UNCHANGED <<poolVars, policyVars>>

\* Mutant: the flag is tested but left for somebody else to set.
OnceClaimWithoutMark(s) ==
    /\ s \in Nodes
    /\ Goto(s, "idle", IF configured THEN "refused" ELSE ApplyEntry(policy[s]))
    /\ UNCHANGED <<poolVars, policyVars>>

\* with_arbitration_once: compare_exchange on ARBITRATION_CONFIGURED.
OnceClaim(s) ==
    /\ s \in Nodes
    /\ \/ configured /\ Goto(s, "idle", "refused") /\ UNCHANGED configured
       \/ ~configured /\ Goto(s, "idle", ApplyEntry(policy[s])) /\ configured' = TRUE
    /\ UNCHANGED <<poolVars, enabled, occupancyPct, reservePct>>

ApplyDisable(s) ==
    /\ Goto(s, "disable", "notify")
    /\ enabled' = FALSE
    /\ UNCHANGED <<poolVars, occupancyPct, reservePct, configured>>

ApplyOccupancy(s) ==
    /\ Goto(s, "occ", "res")
    /\ occupancyPct' = ClampPct(policy[s].occ)
    /\ UNCHANGED <<poolVars, enabled, reservePct, configured>>

ApplyReserve(s) ==
    /\ Goto(s, "res", "enable")
    /\ reservePct' = ClampPct(policy[s].res)
    /\ UNCHANGED <<poolVars, enabled, occupancyPct, configured>>

ApplyEnable(s) ==
    /\ Goto(s, "enable", "notify")
    /\ enabled' = TRUE
    /\ UNCHANGED <<poolVars, occupancyPct, reservePct, configured>>

\* ARBITRATION_EVENT.notify(usize::MAX); the once variant returns true here.
ApplyNotify(s) ==
    /\ Goto(s, "notify", IF s \in Overriders THEN "mark" ELSE "done")
    /\ UNCHANGED <<poolVars, policyVars>>

\* Mutant: an override does not claim the configuration.
OverrideReturnUnmarked(s) ==
    /\ Goto(s, "mark", "done")
    /\ UNCHANGED <<poolVars, policyVars>>

\* with_arbitration marks the arbiter configured only after apply.
OverrideMark(s) ==
    /\ Goto(s, "mark", "done")
    /\ configured' = TRUE
    /\ UNCHANGED <<poolVars, enabled, occupancyPct, reservePct>>

\* Some task is spawned before init_thread_pool has built the pool.
FirstUse ==
    /\ built = 0
    /\ built' = BuiltOnUse
    /\ UNCHANGED <<poolThreadCount, policyVars, at, args>>

\* The setter steps that touch nothing but this module's state.
SetupStep(s) ==
    \/ InitStoreCount(s) \/ InitBuild(s)
    \/ OverrideStart(s) \/ OnceClaim(s)
    \/ ApplyDisable(s) \/ ApplyOccupancy(s) \/ ApplyReserve(s) \/ ApplyEnable(s)
    \/ OverrideMark(s)

Returned(s) == at[s] \in {"done", "refused", "failed"}
Quiescent == \A s \in Setters : at[s] = "idle" \/ Returned(s)

\* Every setter has returned.
SetupDone ==
    /\ \A s \in Setters : Returned(s)
    /\ UNCHANGED setupVars

\* The module on its own, without a pool and without admitters to notify.
SetupNext ==
    \/ \E s \in Setters : SetupStep(s) \/ ApplyNotify(s)
    \/ FirstUse
    \/ SetupDone

SetupSpec == SetupInit /\ [][SetupNext]_setupVars
-----------------------------------------------------------------------------
SetupTypeOK ==
    /\ poolThreadCount \in Nat
    /\ built \in Nat
    /\ enabled \in BOOLEAN
    /\ occupancyPct \in 1..100
    /\ reservePct \in 1..100
    /\ configured \in BOOLEAN
    /\ at \in [Setters -> SetterPoints]
    /\ size \in [Initializers -> PoolSizes]
    /\ policy \in [Nodes \cup Overriders -> Policies]

\* The statics hold exactly the given policy (percentages clamped; a disabled
\* policy carries none).
InForce(p) ==
    /\ enabled = p.enabled
    /\ p.enabled => /\ occupancyPct = ClampPct(p.occ)
                    /\ reservePct = ClampPct(p.res)

\* with_arbitration_once is first-wins: as long as nobody overrides, at most one
\* of the racing nodes gets past the compare-exchange, and the policy of the
\* node whose call returned true is in force, whole, from then on.
OnceFirstWins ==
    (\A o \in Overriders : at[o] = "idle") =>
        /\ \A m, n \in Nodes :
              {at[m], at[n]} \cap {"idle", "refused"} = {} => m = n
        /\ \A n \in Nodes : at[n] = "done" => InForce(policy[n])

\* A with_arbitration_once that begins after an override has returned leaves
\* the override alone.
LateOnceIsRefused ==
    [][\A o \in Overriders, n \in Nodes :
          at[o] = "done" /\ at[n] = "idle" => at'[n] \in {"idle", "refused"}]_setupVars

\* An explicit with_arbitration is never clobbered by with_arbitration_once:
\* when all calls have returned, the policy of an override is in force.
OverrideSurvives ==
    (Quiescent /\ \E o \in Overriders : at[o] = "done")
        => \E o \in Overriders : at[o] = "done" /\ InForce(policy[o])

-----------------------------------------------------------------------------
\* What the theorems need besides: the call that runs apply is a node or an
\* override, the flag is up once either is through, and, while nobody overrides,
\* the statics follow the stores of the one node that claimed the flag.
ApplyPoints == {"occ", "res", "enable", "disable", "notify"}
SettersInv ==
    /\ \A s \in Initializers : at[s] \in {"idle", "build", "done", "failed"}
    /\ \A n \in Nodes : at[n] \in ApplyPoints \cup {"idle", "refused", "done"}
    /\ \A o \in Overriders : at[o] \in ApplyPoints \cup {"idle", "mark", "done"}
    /\ \A o \in Overriders : at[o] = "done" => configured
    /\ \A n \in Nodes : at[n] # "idle" => configured
OnceProgress(n) ==
    /\ at[n] \in {"occ", "res", "enable"} => policy[n].enabled
    /\ at[n] = "disable" => ~policy[n].enabled
    /\ at[n] \in {"res", "enable"} => occupancyPct = ClampPct(policy[n].occ)
    /\ at[n] = "enable" => reservePct = ClampPct(policy[n].res)
    /\ at[n] \in {"notify", "done"} => InForce(policy[n])
OnceInv ==
    (\A o \in Overriders : at[o] = "idle") =>
        /\ \A m, n \in Nodes : {at[m], at[n]} \cap {"idle", "refused"} = {} => m = n
        /\ configured => \E n \in Nodes : at[n] \notin {"idle", "refused"}
        /\ \A n \in Nodes : OnceProgress(n)

SetupIInv == SetupTypeOK /\ SettersInv /\ OnceInv
=============================================================================
