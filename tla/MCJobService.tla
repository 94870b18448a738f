---------------------------- MODULE MCJobService ----------------------------
(* JobService where every request asks for one or for two securities.      *)
EXTENDS JobService

OneEach == [q \in Request |-> 1]
TwoEach == [q \in Request |-> 2]
=============================================================================
