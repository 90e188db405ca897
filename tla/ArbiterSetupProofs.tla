-------------------------- MODULE ArbiterSetupProofs --------------------------
(***************************************************************************)
(* Proofs about ArbiterSetup, for any number of racing nodes, overrides    *)
(* and initializers and any policies, and first about the admission policy *)
(* it sets, for every pool size, every load and every percentage.          *)
(***************************************************************************)
EXTENDS ArbiterSetup, TLAPS

\* The clamp applied to configured percentages ends in 1..100.
LEMMA ClampPctRange ==
    ASSUME NEW p \in Nat
    PROVE  ClampPct(p) \in 1..100
BY DEF ClampPct, AtLeast, AtMost

\* The cap of decode_admit_cap is NoCap or positive: decode is never shut out.
LEMMA CapIsPositive ==
    ASSUME NEW p \in Nat, NEW r \in Nat, NEW d \in Nat, NEW e \in Nat,
           NEW o \in Nat, NEW s \in Nat
    PROVE  DecodeAdmitCap(p, r, d, e, o, s) \in (Nat \ {0}) \cup {NoCap}
<1> DEFINE reserve == EncodeReserve(p, e, s)
<1>1. reserve \in Int
    <2>1. (p * s + 99) \div 100 \in Int
        OBVIOUS
    <2>2. QED
        BY <2>1 DEF EncodeReserve, AtMost
<1>2. QED
    <2> HIDE DEF reserve
    <2>1. DecodeAdmitCap(p, r, d, e, o, s) \in {NoCap, AtLeast(p - reserve, 1)}
        BY DEF DecodeAdmitCap, reserve
    <2>2. AtLeast(p - reserve, 1) \in Nat \ {0}
        BY <1>1 DEF AtLeast
    <2>3. QED
        BY <2>1, <2>2 DEF NoCap

\* Rounding up: the least number of threads that covers x hundredths of one.
LEMMA CeilOfHundredths ==
    ASSUME NEW x \in Nat
    PROVE  /\ (x + 99) \div 100 \in Nat
           /\ ((x + 99) \div 100) * 100 >= x
           /\ ((x + 99) \div 100 - 1) * 100 < x
OBVIOUS

\* Whenever decode_admit_cap caps decode, its cap is the largest that leaves
\* encode its threads, or 1: neither rounding of the code loses a thread.
THEOREM CapIsAlwaysFair ==
    \A p \in Nat \ {0}, r, d, e, o \in Nat, s \in 1..100 :
        LET cap == DecodeAdmitCap(p, r, d, e, o, s)
        IN  cap # NoCap => IsFairCap(cap, p, e, s)
<1> SUFFICES ASSUME NEW p \in Nat \ {0}, NEW r \in Nat, NEW d \in Nat, NEW e \in Nat,
                    NEW o \in Nat, NEW s \in 1..100,
                    DecodeAdmitCap(p, r, d, e, o, s) # NoCap
             PROVE  IsFairCap(DecodeAdmitCap(p, r, d, e, o, s), p, e, s)
    OBVIOUS
<1> DEFINE x == p * s
           up == (x + 99) \div 100
           reserve == AtMost(up, e)
           cap == AtLeast(p - reserve, 1)
<1>1. x \in Nat /\ x >= 1
    OBVIOUS
<1>2. up \in Nat /\ up * 100 >= x /\ (up - 1) * 100 < x
    <2> HIDE DEF x
    <2>1. QED
        BY <1>1, CeilOfHundredths
<1>3. e >= 1 /\ DecodeAdmitCap(p, r, d, e, o, s) = cap
    BY DEF DecodeAdmitCap, EncodeReserve
<1>4. IsFairCap(cap, p, e, s)
    <2> HIDE DEF up
    <2>1. cap >= 1 /\ cap \in Nat
        BY <1>2 DEF AtLeast, AtMost
    <2>2. cap = 1 \/ LeavesReserve(cap, p, e, s)
        <3> HIDE DEF x
        <3>1. SUFFICES cap = 1 \/ (p - cap) * 100 >= AtMost(x, e * 100)
            BY DEF LeavesReserve, x
        <3>2. QED
            BY <1>1, <1>2, <1>3 DEF AtLeast, AtMost
    <2>3. ~LeavesReserve(cap + 1, p, e, s)
        <3> HIDE DEF x
        <3>1. SUFFICES ~((p - (cap + 1)) * 100 >= AtMost(x, e * 100))
            BY DEF LeavesReserve, x
        <3>2. QED
            BY <1>1, <1>2, <1>3 DEF AtLeast, AtMost
    <2>4. QED
        BY <2>1, <2>2, <2>3 DEF IsFairCap
<1>5. QED
    BY <1>3, <1>4

------------------------------------------------------------------------------
\* A setter that runs apply is a node or an override and has a policy; the one
\* that builds the pool is an initializer and has a size.
LEMMA SetterArgs ==
    ASSUME SetupTypeOK, SettersInv, NEW s \in Setters
    PROVE  /\ at[s] = "build" => s \in Initializers /\ size[s] \in Nat
           /\ at[s] \in ApplyPoints \cup {"mark"} =>
                 /\ s \in Nodes \cup Overriders
                 /\ policy[s] \in Policies
                 /\ policy[s].occ \in Nat /\ policy[s].res \in Nat
                 /\ policy[s].enabled \in BOOLEAN
           /\ at[s] = "mark" => s \in Overriders
<1> USE DEF SettersInv, ApplyPoints, Setters
<1>1. ASSUME at[s] = "build"
      PROVE  s \in Initializers /\ size[s] \in Nat
    <2>1. s \in Initializers
        BY <1>1
    <2>2. QED
        BY <2>1, SetupAssumption DEF SetupTypeOK
<1>2. ASSUME at[s] \in ApplyPoints \cup {"mark"}
      PROVE  s \in Nodes \cup Overriders /\ policy[s] \in Policies
    <2>1. s \in Nodes \cup Overriders
        BY <1>2
    <2>2. QED
        BY <2>1 DEF SetupTypeOK
<1>3. \A p \in Policies : p.occ \in Nat /\ p.res \in Nat /\ p.enabled \in BOOLEAN
    <2>1. SUFFICES ASSUME NEW p \in Policies
                   PROVE  p.occ \in Nat /\ p.res \in Nat /\ p.enabled \in BOOLEAN
        OBVIOUS
    <2>2. p \in [enabled : BOOLEAN, occ : Nat, res : Nat]
        BY SetupAssumption
    <2>3. QED
        BY <2>2
<1>4. at[s] = "mark" => s \in Overriders
    OBVIOUS
<1>5. QED
    BY <1>1, <1>2, <1>3, <1>4

\* Every step of a setter keeps the statics typed: the percentages stay within
\* 1..100 whatever is asked for.
LEMMA SetterType ==
    ASSUME SetupTypeOK, SettersInv, NEW s \in Setters, SetupStep(s) \/ ApplyNotify(s)
    PROVE  SetupTypeOK'
<1> USE DEF SetupTypeOK, Goto, SetterPoints, policyVars, poolVars, args
<1>1. CASE InitStoreCount(s)
    BY <1>1, SetupAssumption DEF InitStoreCount
<1>2. CASE InitBuild(s)
    BY <1>2, SetterArgs, SetupAssumption DEF InitBuild
<1>3. CASE OverrideStart(s) \/ ApplyNotify(s) \/ ApplyDisable(s) \/ ApplyEnable(s) \/ OverrideMark(s)
    BY <1>3 DEF OverrideStart, ApplyNotify, ApplyDisable, ApplyEnable, OverrideMark, ApplyEntry
<1>4. CASE OnceClaim(s)
    BY <1>4 DEF OnceClaim, ApplyEntry
<1>5. CASE ApplyOccupancy(s)
    <2>1. policy[s].occ \in Nat
        BY <1>5, SetterArgs DEF ApplyOccupancy, ApplyPoints
    <2>2. QED
        BY <1>5, <2>1, ClampPctRange DEF ApplyOccupancy
<1>6. CASE ApplyReserve(s)
    <2>1. policy[s].res \in Nat
        BY <1>6, SetterArgs DEF ApplyReserve, ApplyPoints
    <2>2. QED
        BY <1>6, <2>1, ClampPctRange DEF ApplyReserve
<1>7. QED
    BY <1>1, <1>2, <1>3, <1>4, <1>5, <1>6 DEF SetupStep

\* Every step of a setter keeps to the control points of its function.
LEMMA SetterControl ==
    ASSUME SetupTypeOK, SettersInv, NEW s \in Setters, SetupStep(s) \/ ApplyNotify(s)
    PROVE  SettersInv'
<1> USE DEF SetupTypeOK, SettersInv, Goto, ApplyPoints, Setters, policyVars, poolVars, args
<1>1. CASE InitStoreCount(s) \/ InitBuild(s)
    BY <1>1, SetupAssumption DEF InitStoreCount, InitBuild
<1>2. CASE OverrideStart(s) \/ OnceClaim(s)
    BY <1>2, SetupAssumption DEF OverrideStart, OnceClaim, ApplyEntry
<1>3. CASE ApplyDisable(s) \/ ApplyOccupancy(s) \/ ApplyReserve(s) \/ ApplyEnable(s)
    BY <1>3, SetupAssumption DEF ApplyDisable, ApplyOccupancy, ApplyReserve, ApplyEnable
<1>4. CASE ApplyNotify(s) \/ OverrideMark(s)
    BY <1>4, SetupAssumption DEF ApplyNotify, OverrideMark
<1>5. QED
    BY <1>1, <1>2, <1>3, <1>4 DEF SetupStep

\* A step of any setter keeps the statics in step with the one node that claimed
\* the flag, as long as no override has begun.
LEMMA OnceStep ==
    ASSUME SetupIInv, NEW s \in Setters, SetupStep(s) \/ ApplyNotify(s)
    PROVE  OnceInv'
<1> USE DEF SetupIInv, SetupTypeOK, Goto, policyVars, poolVars, args
<1>1. SUFFICES ASSUME \A o \in Overriders : at'[o] = "idle"
               PROVE  OnceInv'
    BY DEF OnceInv
<1>2. /\ \A o \in Overriders : at[o] = "idle"
      /\ s \notin Overriders
    <2>1. s \in Overriders => at'[s] # "idle"
        BY DEF SetupStep, InitStoreCount, InitBuild, OverrideStart, OnceClaim, ApplyEntry,
               ApplyDisable, ApplyOccupancy, ApplyReserve, ApplyEnable, OverrideMark, ApplyNotify
    <2>2. \A x \in Setters : x # s => at'[x] = at[x]
        BY DEF SetupStep, InitStoreCount, InitBuild, OverrideStart, OnceClaim,
               ApplyDisable, ApplyOccupancy, ApplyReserve, ApplyEnable, OverrideMark, ApplyNotify
    <2>3. QED
        BY <1>1, <2>1, <2>2 DEF Setters
<1>3. /\ \A m, n \in Nodes : {at[m], at[n]} \cap {"idle", "refused"} = {} => m = n
      /\ configured => \E n \in Nodes : at[n] \notin {"idle", "refused"}
      /\ \A n \in Nodes : OnceProgress(n)
    BY <1>2 DEF OnceInv
<1>4. CASE s \in Initializers
    <2>1. /\ UNCHANGED <<policyVars, args>>
          /\ \A n \in Nodes : at'[n] = at[n]
        <3>1. InitStoreCount(s) \/ InitBuild(s)
            BY <1>4, SetupAssumption
               DEF SettersInv, SetupStep, OverrideStart, OnceClaim,
                   ApplyDisable, ApplyOccupancy, ApplyReserve, ApplyEnable, OverrideMark, ApplyNotify
        <3>2. QED
            BY <1>4, <3>1, SetupAssumption DEF InitStoreCount, InitBuild, Setters
    <2>2. QED
        BY <1>3, <2>1 DEF OnceInv, OnceProgress, InForce
<1>5. CASE s \in Nodes
    <2>0. policy[s].enabled \in BOOLEAN
        <3>1. policy[s] \in [enabled : BOOLEAN, occ : Nat, res : Nat]
            BY <1>5, SetupAssumption
        <3>2. QED
            BY <3>1
    <2>1. at'[s] # "idle" /\ \A n \in Nodes : n # s => at'[n] = at[n]
        BY DEF SetupStep, InitStoreCount, InitBuild, OverrideStart, OnceClaim, ApplyEntry, Setters,
               ApplyDisable, ApplyOccupancy, ApplyReserve, ApplyEnable, OverrideMark, ApplyNotify
    <2>2. CASE OnceClaim(s) /\ configured
        BY <1>3, <2>2, <2>1 DEF OnceClaim, OnceInv, OnceProgress, InForce
    <2>3. CASE OnceClaim(s) /\ ~configured
        <3>1. \A n \in Nodes : at[n] = "idle"
            BY <2>3 DEF SettersInv
        <3>2. /\ configured' /\ at'[s] = ApplyEntry(policy[s])
              /\ UNCHANGED args
            BY <2>3 DEF OnceClaim
        <3>3. QED
            BY <1>5, <2>0, <2>1, <3>1, <3>2 DEF OnceInv, OnceProgress, ApplyEntry
    <2>4. CASE ~OnceClaim(s)
        <3>1. \/ ApplyDisable(s) \/ ApplyOccupancy(s) \/ ApplyReserve(s)
              \/ ApplyEnable(s) \/ ApplyNotify(s)
            BY <1>5, <2>4, SetupAssumption
               DEF SettersInv, ApplyPoints, SetupStep, InitStoreCount, InitBuild, OverrideStart,
                   OverrideMark
        <3>2. /\ at[s] \notin {"idle", "refused"} /\ at'[s] \notin {"idle", "refused"}
              /\ UNCHANGED <<configured, args>>
            BY <1>2, <3>1 DEF ApplyDisable, ApplyOccupancy, ApplyReserve, ApplyEnable, ApplyNotify
        <3>3. \A n \in Nodes : n # s => at[n] \in {"idle", "refused"}
            BY <1>3, <1>5, <3>2
        <3>4. OnceProgress(s)'
            <4>1. OnceProgress(s)
                BY <1>3, <1>5
            <4>2. CASE ApplyDisable(s)
                BY <2>0, <4>1, <4>2 DEF ApplyDisable, OnceProgress, InForce
            <4>3. CASE ApplyOccupancy(s)
                BY <4>1, <4>3 DEF ApplyOccupancy, OnceProgress
            <4>4. CASE ApplyReserve(s)
                BY <4>1, <4>4 DEF ApplyReserve, OnceProgress
            <4>5. CASE ApplyEnable(s)
                BY <2>0, <4>1, <4>5 DEF ApplyEnable, OnceProgress, InForce
            <4>6. CASE ApplyNotify(s)
                BY <1>2, <4>1, <4>6 DEF ApplyNotify, OnceProgress, InForce
            <4>7. QED
                BY <3>1, <4>2, <4>3, <4>4, <4>5, <4>6
        <3>5. QED
            BY <1>5, <2>1, <3>2, <3>3, <3>4 DEF OnceInv, OnceProgress
    <2>5. QED
        BY <2>2, <2>3, <2>4
<1>6. QED
    BY <1>2, <1>4, <1>5 DEF Setters
-----------------------------------------------------------------------------
\* The invariant of the set-up holds at the start of the process,
LEMMA SetupInitial == SetupInit => SetupIInv
<1> SUFFICES ASSUME SetupInit PROVE SetupIInv
    OBVIOUS
<1>1. SetupTypeOK
    <2>1. occupancyPct = 75 /\ reservePct = 50
        BY DEF SetupInit, DefaultPolicy
    <2>0. enabled \in BOOLEAN /\ configured \in BOOLEAN
        BY DEF SetupInit, DefaultPolicy
    <2>2. at \in [Setters -> SetterPoints]
        BY DEF SetupInit, SetterPoints
    <2>3. QED
        BY <2>0, <2>1, <2>2, SetupAssumption DEF SetupInit, SetupTypeOK
<1>2. /\ ~configured
      /\ \A s \in Initializers \cup Nodes \cup Overriders : at[s] = "idle"
    BY DEF SetupInit, Setters
<1>3. SettersInv
    BY <1>2 DEF SettersInv
<1>4. OnceInv
    BY <1>2 DEF OnceInv, OnceProgress
<1>5. QED
    BY <1>1, <1>3, <1>4 DEF SetupIInv

\* every step of a configuring thread and the first use of the pool keep it,
LEMMA SetupInductive == SetupIInv /\ [SetupNext]_setupVars => SetupIInv'
<1> SUFFICES ASSUME SetupIInv, [SetupNext]_setupVars
             PROVE  SetupIInv'
    OBVIOUS
<1>1. CASE \E s \in Setters : SetupStep(s) \/ ApplyNotify(s)
    BY <1>1, SetterType, SetterControl, OnceStep DEF SetupIInv
<1>2. CASE FirstUse
    BY <1>2, SetupAssumption
       DEF FirstUse, BuiltOnUse, SetupIInv, SetupTypeOK, SettersInv, OnceInv, OnceProgress,
           InForce, policyVars, args
<1>3. CASE UNCHANGED setupVars
    BY <1>3
       DEF SetupIInv, SetupTypeOK, SettersInv, OnceInv, OnceProgress, InForce,
           setupVars, policyVars, poolVars, args
<1>4. QED
    BY <1>1, <1>2, <1>3 DEF SetupNext, SetupDone

\* so it holds throughout.
LEMMA SetupInvariant == SetupSpec => []SetupIInv
BY SetupInitial, SetupInductive, PTL DEF SetupSpec

\* The statics always hold a boolean switch and percentages in 1..100.
THEOREM SetupTypeCorrect == SetupSpec => []SetupTypeOK
<1>1. SetupIInv => SetupTypeOK
    BY DEF SetupIInv
<1>2. QED
    BY <1>1, SetupInvariant, PTL

\* with_arbitration_once is first-wins for any number of racing nodes: one of
\* them claims the flag, and when its call returns its policy is in force whole.
THEOREM OnceIsFirstWins == SetupSpec => []OnceFirstWins
<1>1. SetupIInv => OnceFirstWins
    BY DEF SetupIInv, OnceInv, OnceProgress, OnceFirstWins
<1>2. QED
    BY <1>1, SetupInvariant, PTL

\* A with_arbitration_once that starts after an override returned is refused.
THEOREM LateOnceRefused == SetupSpec => LateOnceIsRefused
<1>1. SetupIInv /\ [SetupNext]_setupVars =>
        [\A o \in Overriders, n \in Nodes :
            at[o] = "done" /\ at[n] = "idle" => at'[n] \in {"idle", "refused"}]_setupVars
    <2> SUFFICES ASSUME SetupIInv, SetupNext,
                        NEW o \in Overriders, NEW n \in Nodes, at[o] = "done", at[n] = "idle"
                 PROVE  at'[n] \in {"idle", "refused"}
        OBVIOUS
    <2>1. configured
        BY DEF SetupIInv, SettersInv
    <2>2. CASE OnceClaim(n)
        BY <2>1, <2>2 DEF OnceClaim, Goto, SetupIInv, SetupTypeOK, Setters
    <2>3. CASE ~OnceClaim(n)
        <3>1. at'[n] = at[n]
            BY <2>3, SetupAssumption
               DEF SetupNext, SetupStep, InitStoreCount, InitBuild, OverrideStart, OnceClaim,
                   ApplyDisable, ApplyOccupancy, ApplyReserve, ApplyEnable, OverrideMark,
                   ApplyNotify, FirstUse, SetupDone, setupVars, Goto, SetupIInv, SetupTypeOK,
                   Setters
        <3>2. QED
            BY <3>1
    <2>4. QED
        BY <2>2, <2>3
<1>2. QED
    BY <1>1, SetupInvariant, PTL DEF SetupSpec, LateOnceIsRefused
=============================================================================
