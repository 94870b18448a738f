---------------------------- MODULE MCTransport ----------------------------
(* Two source groups, one twice as slow as the other.                      *)
EXTENDS Transport, TLC

CONSTANTS slow, fast

TwoGroups == {slow, fast}
Symmetry == Permutations(Thread)
TwoRates == (slow :> 2) @@ (fast :> 1)
=============================================================================
