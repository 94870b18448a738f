-------------------------- MODULE MCClientSession --------------------------
(* Instances of ClientSession for TLC. *)
EXTENDS ClientSession, TLC

ContentSymmetry == Permutations(Content)

=============================================================================
