----------------------------- MODULE ArchiveView -----------------------------
(***************************************************************************)
(* The archive as the requests of the HTTP API read it: for each report    *)
(* the version its manifest row names, and for each version whether its    *)
(* artifact row is ready and its file the right one.  Archive tells        *)
(* only the version in show; here a version keeps its row and its file     *)
(* when another one takes its place, and can lose either afterwards.       *)
(***************************************************************************)
CONSTANTS Report, Content, NoContent

VARIABLES
    current,  \* manifest.current_artifact_id
    file,     \* "off": no ready artifact; "good", "bad": ready, and its file
    up        \* FALSE from the death of the process to the end of recovery

viewVars == <<current, file, up>>

FileView == {"off", "good", "bad"}

\* The join of the report list and of find_cached.
Served(r) == current[r] # NoContent /\ file[r][current[r]] # "off"

Init ==
    /\ current = [r \in Report |-> NoContent]
    /\ file = [r \in Report |-> [c \in Content |-> "off"]]
    /\ up = TRUE

\* A delivery is published, by a fetch or by the recovery; its file may have
\* been damaged since it was put in place.
Publish(r, c) ==
    /\ current' = [current EXCEPT ![r] = c]
    /\ \E f \in {"good", "bad"} : file' = [file EXCEPT ![r][c] = f]
    /\ UNCHANGED up

\* A content the archive has is delivered again, the version in show or one
\* that was superseded: its artifact goes back to staged.
Stage(r, c) ==
    /\ up /\ file[r][c] # "off"
    /\ file' = [file EXCEPT ![r][c] = "off"]
    /\ UNCHANGED <<current, up>>

\* Mutant: the manifest loses its version whatever else is ready.
NothingLeft(r) == NoContent

\* The manifest keeps its version as long as another artifact is ready.
LeftCurrent(r) ==
    IF \E c \in Content \ {current[r]} : file[r][c] # "off" THEN current[r] ELSE NoContent

\* A fetch finds the file of the version in show missing or damaged.
WriteOff(r) ==
    /\ up /\ current[r] # NoContent /\ file[r][current[r]] = "bad"
    /\ current' = [current EXCEPT ![r] = LeftCurrent(r)]
    /\ file' = [file EXCEPT ![r][current[r]] = "off"]
    /\ UNCHANGED up

\* Somebody damages or removes the file of any version.
Damage(r, c) ==
    /\ file[r][c] = "good"
    /\ file' = [file EXCEPT ![r][c] = "bad"]
    /\ UNCHANGED <<current, up>>

\* Recovery puts the file of an unfinished redelivery in place again.
Repair(r, c) ==
    /\ ~up /\ file[r][c] = "bad"
    /\ file' = [file EXCEPT ![r][c] = "good"]
    /\ UNCHANGED <<current, up>>

Restart == up /\ up' = FALSE /\ UNCHANGED <<current, file>>

Reopen == ~up /\ up' = TRUE /\ UNCHANGED <<current, file>>

Change ==
    \E r \in Report :
        \/ WriteOff(r)
        \/ \E c \in Content : Publish(r, c) \/ Stage(r, c) \/ Damage(r, c) \/ Repair(r, c)

Next == Change \/ Restart \/ Reopen

Spec == Init /\ [][Next]_viewVars
=============================================================================
