------------------------------ MODULE JobBoard ------------------------------
(***************************************************************************)
(* What the job service promises its clients, without processes, locks,    *)
(* attempts or restarts: a submission identified by its key is accepted at *)
(* most once, only while there is room for it, with the request it came    *)
(* with; and it ends at most once, in an outcome that no longer changes.   *)
(***************************************************************************)
EXTENDS Integers, FiniteSets

CONSTANTS Key, Request, NoRequest, MaxPending

VARIABLES
    accepted,   \* the request accepted under each key, or NoRequest
    outcome     \* "pending", or how the accepted job ended

boardVars == <<accepted, outcome>>

Outcomes == {"succeeded", "partial", "failed"}

Pending == {k \in Key : accepted[k] # NoRequest /\ outcome[k] = "pending"}

Init ==
    /\ accepted = [k \in Key |-> NoRequest]
    /\ outcome = [k \in Key |-> "pending"]

Accept(k, q) ==
    /\ accepted[k] = NoRequest
    /\ Cardinality(Pending) < MaxPending
    /\ accepted' = [accepted EXCEPT ![k] = q]
    /\ UNCHANGED outcome

End(k, result) ==
    /\ k \in Pending
    /\ outcome' = [outcome EXCEPT ![k] = result]
    /\ UNCHANGED accepted

Next ==
    \E k \in Key :
        \/ \E q \in Request : Accept(k, q)
        \/ \E result \in Outcomes : End(k, result)

Spec == Init /\ [][Next]_boardVars
=============================================================================
