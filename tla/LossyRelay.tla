----------------------------- MODULE LossyRelay -----------------------------
(***************************************************************************)
(* What forwarding streams into one bounded channel promises: every        *)
(* forwarder is a queue of its own.  Items leave it in the order of its    *)
(* stream; the only item that can be lost to a timeout is the newest one,  *)
(* and only while an older one is still undelivered; a forwarder that ends *)
(* with Ok has lost nothing else, and it ends with an error only when the  *)
(* receiver or the stream gave it one.                                     *)
(***************************************************************************)
EXTENDS Naturals, Sequences

CONSTANTS Forwarders, Items

VARIABLES offered,   \* items the stream of a forwarder has produced
          finish,    \* how that stream ended: "open", "end" or "error"
          taken,     \* items taken from it
          transit,   \* items taken, neither lost nor delivered
          delivered, \* items the receiver got, per forwarder
          phase,     \* "open", "ok" or "failed"
          gone       \* the receiver was dropped

relayVars == <<offered, finish, taken, transit, delivered, phase, gone>>

Init ==
    /\ offered = [f \in Forwarders |-> 0]
    /\ finish = [f \in Forwarders |-> "open"]
    /\ taken = [f \in Forwarders |-> 0]
    /\ transit = [f \in Forwarders |-> <<>>]
    /\ delivered = [f \in Forwarders |-> <<>>]
    /\ phase = [f \in Forwarders |-> "open"]
    /\ gone = FALSE

Offer(f) ==
    /\ finish[f] = "open" /\ offered[f] < Items[f]
    /\ offered' = [offered EXCEPT ![f] = @ + 1]
    /\ UNCHANGED <<finish, taken, transit, delivered, phase, gone>>

End(f) ==
    /\ finish[f] = "open"
    /\ \E how \in {"end", "error"} : finish' = [finish EXCEPT ![f] = how]
    /\ UNCHANGED <<offered, taken, transit, delivered, phase, gone>>

Take(f) ==
    /\ phase[f] = "open" /\ taken[f] < offered[f]
    /\ taken' = [taken EXCEPT ![f] = @ + 1]
    /\ transit' = [transit EXCEPT ![f] = Append(@, <<f, taken'[f]>>)]
    /\ UNCHANGED <<offered, finish, delivered, phase, gone>>

Expire(f) ==
    /\ phase[f] = "open" /\ Len(transit[f]) >= 2
    /\ transit' = [transit EXCEPT ![f] = SubSeq(@, 1, Len(@) - 1)]
    /\ UNCHANGED <<offered, finish, taken, delivered, phase, gone>>

Deliver(f) ==
    /\ ~gone /\ transit[f] # <<>>
    /\ transit' = [transit EXCEPT ![f] = Tail(@)]
    /\ delivered' = [delivered EXCEPT ![f] = Append(@, Head(transit[f]))]
    /\ UNCHANGED <<offered, finish, taken, phase, gone>>

Succeed(f) ==
    /\ phase[f] = "open" /\ finish[f] = "end" /\ taken[f] = offered[f]
    /\ phase' = [phase EXCEPT ![f] = "ok"]
    /\ UNCHANGED <<offered, finish, taken, transit, delivered, gone>>

Fail(f) ==
    /\ phase[f] = "open" /\ (gone \/ finish[f] = "error")
    /\ phase' = [phase EXCEPT ![f] = "failed"]
    /\ \E n \in 0..Len(transit[f]) : transit' = [transit EXCEPT ![f] = SubSeq(@, 1, n)]
    /\ UNCHANGED <<offered, finish, taken, delivered, gone>>

Disconnect ==
    /\ ~gone /\ gone' = TRUE
    /\ UNCHANGED <<offered, finish, taken, transit, delivered, phase>>

Next ==
    \/ \E f \in Forwarders : Offer(f) \/ End(f) \/ Take(f) \/ Expire(f)
                                \/ Deliver(f) \/ Succeed(f) \/ Fail(f)
    \/ Disconnect

Spec == Init /\ [][Next]_relayVars
=============================================================================
