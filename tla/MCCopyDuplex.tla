---------------------------- MODULE MCCopyDuplex ----------------------------
(***************************************************************************)
(* Instances of CopyDuplex for TLC.                                        *)
(***************************************************************************)
EXTENDS CopyDuplex

\* Two messages from a to b, the first of two bytes; b only closes or is aborted.
TwoMessages == [d \in Directions |-> IF d = "ab" THEN <<1, 1, 2>> ELSE <<>>]
OneStall == [d \in Directions |-> 1]

\* Both sides abort, or the writers stall, not both.
MCNext ==
    /\ Next
    /\ api = "copy_duplex_abortable" => stalls' = stalls

MCSpec ==
    /\ Init /\ [][MCNext]_vars
    /\ WF_vars(~Over /\ Task)
    /\ \A d \in Directions : WF_vars(~Over /\ Unstall(d))
=============================================================================
