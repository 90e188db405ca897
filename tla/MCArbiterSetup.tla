---------------------------- MODULE MCArbiterSetup ----------------------------
(***************************************************************************)
(* Instances of ArbiterSetup for TLC.  The out-of-range percentages reach  *)
(* apply because neither entry point validates its argument.               *)
(***************************************************************************)
EXTENDS ArbiterSetup

Off == [enabled |-> FALSE, occ |-> 0, res |-> 0]
Half == [enabled |-> TRUE, occ |-> 50, res |-> 50]
Wild == [enabled |-> TRUE, occ |-> 0, res |-> 250]

ThreePolicies == {Off, Half, Wild}
=============================================================================
