------------------------------- MODULE Archive -------------------------------
(***************************************************************************)
(* What the archive promises to its readers (the report list, the file     *)
(* endpoint and the cache lookup of later jobs), without intents, files,   *)
(* temporary names or recovery.                                            *)
(*                                                                         *)
(* Each report shows at most one version.  A version comes from a verified *)
(* delivery of that report and nowhere else, and a version in show is only *)
(* taken away when its file has been damaged from outside or when the very *)
(* same content has been delivered again and is being re-registered.       *)
(***************************************************************************)
CONSTANTS Report, Content, NoContent

VARIABLES
    served,   \* the version each report shows, or NoContent
    onHand,   \* contents delivered and verified, not yet published or dropped
    damaged   \* reports whose shown version is damaged on disk

archiveVars == <<served, onHand, damaged>>

Init ==
    /\ served = [r \in Report |-> NoContent]
    /\ onHand = [r \in Report |-> {}]
    /\ damaged = {}

Deliver(r, c) ==
    /\ onHand' = [onHand EXCEPT ![r] = @ \cup {c}]
    /\ UNCHANGED <<served, damaged>>

\* Deliveries may be dropped at any time: failures, crashes, recovery.
Drop ==
    /\ onHand' \in [Report -> SUBSET Content]
    /\ \A r \in Report : onHand'[r] \subseteq onHand[r]
    /\ UNCHANGED <<served, damaged>>

\* A delivery on hand becomes the version in show; its file may already have
\* been damaged since it was put in place.
Show(r, c) ==
    /\ c \in onHand[r]
    /\ served' = [served EXCEPT ![r] = c]
    /\ \E S \in SUBSET onHand[r] : onHand' = [onHand EXCEPT ![r] = S]
    /\ damaged' \in {damaged \cup {r}, damaged \ {r}}

Withdraw(r) ==
    /\ served[r] # NoContent
    /\ r \in damaged \/ served[r] \in onHand[r]
    /\ served' = [served EXCEPT ![r] = NoContent]
    /\ damaged' = damaged \ {r}
    /\ UNCHANGED onHand

Damage(r) ==
    /\ served[r] # NoContent
    /\ damaged' = damaged \cup {r}
    /\ UNCHANGED <<served, onHand>>

\* The file of the version in show is put in place again.
Repair(r) ==
    /\ damaged' = damaged \ {r}
    /\ served[r] \in onHand[r]
    /\ UNCHANGED <<served, onHand>>

Next ==
    \/ Drop
    \/ \E r \in Report :
         \/ Withdraw(r) \/ Damage(r) \/ Repair(r)
         \/ \E c \in Content : Deliver(r, c) \/ Show(r, c)

Spec == Init /\ [][Next]_archiveVars
=============================================================================
