-------------------------- MODULE MCForwardChannel --------------------------
(***************************************************************************)
(* Instances of ForwardChannel for TLC.                                    *)
(***************************************************************************)
EXTENDS ForwardChannel

CONSTANTS f1, f2

LongAndShort == [f \in Forwarders |-> IF f = f1 THEN 3 ELSE 1]
=============================================================================
