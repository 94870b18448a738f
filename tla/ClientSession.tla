--------------------------- MODULE ClientSession ---------------------------
(***************************************************************************)
(* A client of the HTTP API, step by step, against what the job service    *)
(* and the archive promise: it submits a job, waits for its end, reads the *)
(* pages of the report list and the file of a report, while jobs end,      *)
(* versions are published, delivered again, written off and damaged, and   *)
(* the process dies and recovers between any two of its steps.  JobService *)
(* implements JobBoard and ArchiveStore implements ArchiveView, so what    *)
(* holds here holds over the services themselves.                          *)
(*                                                                         *)
(* A report is its rowid in the manifest, a content an artifact of it.     *)
(***************************************************************************)
EXTENDS Integers, FiniteSets, FiniteSetsExt, SequencesExt

CONSTANTS
    Key, NoRequest, MaxPending,      \* Of JobBoard; one request is enough here.
    Report, Content, NoContent,      \* Of ArchiveView.
    Limit,                           \* list_reports: rows of a page.
    MaxTry,                          \* Bound on the submissions of the client.
    MaxChange                        \* Bound on the changes of the archive.

ASSUME ReportAssumption == Report \subseteq Nat /\ Report # {} /\ IsFiniteSet(Report)
ASSUME LimitAssumption == Limit \in Nat \ {0} /\ MaxTry \in Nat /\ MaxChange \in Nat
ASSUME NoContentAssumption == NoContent \notin Content

Request == {"q"}

ASSUME RequestAssumption == NoRequest \notin Request /\ Key # {}

VARIABLES
    accepted, outcome,          \* The job service, as JobBoard has it.
    current, file, up,          \* The archive, as ArchiveView has it.
    changes,   \* Changes of the archive since the client's job ended.
    pc,        \* Control state of the client and of the request it has out.
    keyed,     \* submit_job: the caller gives an idempotency key of its own.
    tries,     \* Submissions sent.
    job,       \* The job_id the client was told, the key standing for it.
    doc,       \* The answer to a poll that is on its way.
    last,      \* wait_for_terminal: last.
    expired,   \* wait_for_terminal: the budget is used up.
    cursor,    \* list_reports: the rowid of the cursor.
    got,       \* The rows of the pages read so far, in order.
    steady,    \* History: reports served ever since the first page.
    asked,     \* report_file: artifact_id, or NoContent for the version in show.
    row,       \* report_file: the artifact it has looked up.
    reply,     \* report_file: what the client receives.
    shown      \* History: the versions in show while report_file ran, each with
               \* TRUE if its file was good at that moment.

Board == INSTANCE JobBoard
Store == INSTANCE ArchiveView

jobs == <<accepted, outcome>>
archive == <<current, file, up, changes>>
submission == <<keyed, tries, job>>
waiting == <<doc, last, expired>>
listing == <<cursor, got, steady>>
reading == <<asked, row, reply, shown>>
vars == <<jobs, archive, pc, submission, waiting, listing, reading>>

\* The report whose file is read.
Subject == Max(Report)

Statuses == {"none", "pending"} \cup Board!Outcomes

NoReply == [status |-> 0, etag |-> NoContent]

Refusal == [status |-> 409, etag |-> NoContent]

TypeOK ==
    /\ accepted \in [Key -> Request \cup {NoRequest}]
    /\ outcome \in [Key -> {"pending"} \cup Board!Outcomes]
    /\ current \in [Report -> Content \cup {NoContent}]
    /\ file \in [Report -> [Content -> Store!FileView]]
    /\ \A r \in Report : current[r] = NoContent => \A c \in Content : file[r][c] = "off"
    /\ up \in BOOLEAN /\ changes \in 0..MaxChange
    /\ pc \in {"submit", "sent", "poll", "polled", "answered", "ended", "gave up",
               "list", "listed", "file", "looked up", "read"}
    /\ keyed \in BOOLEAN /\ tries \in 0..MaxTry /\ job \subseteq Key
    /\ Cardinality(job) <= 1
    /\ {doc, last} \subseteq Statuses /\ expired \in BOOLEAN
    /\ cursor \in Nat /\ got \in Seq(Report) /\ steady \subseteq Report
    /\ {asked, row} \subseteq Content \cup {NoContent}
    /\ reply \in [status : {0, 200, 304, 409}, etag : Content \cup {NoContent}]
    /\ shown \subseteq (Content \cup {NoContent}) \X BOOLEAN

\* The archive of earlier jobs: a report has a version in show, and may have
\* older ones, or it has none.
Archived ==
    /\ current \in [Report -> Content \cup {NoContent}]
    /\ file \in [Report -> [Content -> {"off", "good"}]]
    /\ \A r \in Report :
         IF current[r] = NoContent THEN \A c \in Content : file[r][c] = "off"
         ELSE file[r][current[r]] = "good"

Init ==
    /\ Board!Init /\ Archived /\ up = TRUE /\ changes = 0
    /\ pc = "submit" /\ keyed \in BOOLEAN /\ tries = 0 /\ job = {}
    /\ doc = "none" /\ last = "none" /\ expired = FALSE
    /\ cursor = 0 /\ got = <<>> /\ steady = {}
    /\ asked = NoContent /\ row = NoContent /\ reply = NoReply /\ shown = {}

-----------------------------------------------------------------------------
(* The services meanwhile *)

JobEnds ==
    /\ \E k \in Key, result \in Board!Outcomes : Board!End(k, result)
    /\ UNCHANGED <<archive, pc, submission, waiting, listing, reading>>

InShow ==
    IF Store!Served(Subject) THEN <<current[Subject], file[Subject][current[Subject]] = "good">>
    ELSE <<NoContent, FALSE>>

\* The histories follow every change of the archive.
Watched ==
    /\ steady' = {r \in steady : Store!Served(r)'}
    /\ shown' = IF pc = "looked up" THEN shown \cup {InShow'} ELSE shown

\* What happens to the archive before the wait is over is as good as there when
\* the session begins, and what happens after the last request is seen by none.
Changing ==
    /\ changes < MaxChange /\ pc \in {"ended", "list", "file", "looked up", "read"}
    /\ changes' = changes + 1
    /\ UNCHANGED <<jobs, submission, waiting, cursor, got, asked, row, reply>>

ArchiveChanges == Changing /\ Store!Change /\ Watched /\ UNCHANGED pc

\* The process dies, and with it the request it is answering.
Restart ==
    /\ Changing /\ Store!Restart
    /\ pc' = IF pc = "looked up" THEN "read" ELSE pc
    /\ UNCHANGED <<steady, shown>>

Reopen ==
    /\ Store!Reopen
    /\ UNCHANGED <<jobs, changes, pc, submission, waiting, listing, reading>>

-----------------------------------------------------------------------------
(* Submission *)

\* Mutant: a key is made up for each attempt, whatever the caller gives.
MadeUpKey(k) == accepted[k] = NoRequest

\* submit_job: the key of the caller, or one that nobody has used.
KeyOf(k) ==
    IF keyed THEN k = CHOOSE own \in Key : TRUE
    ELSE accepted[k] = NoRequest /\ k = CHOOSE new \in Key : accepted[new] = NoRequest

\* The request reaches the service or is lost on its way; a job that exists is
\* answered with its own id.
Submit ==
    /\ pc = "submit" /\ tries < MaxTry
    /\ tries' = tries + 1
    /\ \E k \in Key :
          /\ KeyOf(k)
          /\ \/ /\ IF accepted[k] = NoRequest THEN Board!Accept(k, "q") ELSE UNCHANGED jobs
                /\ job' = {k} /\ pc' = "sent"
             \/ UNCHANGED <<jobs, job, pc>>
    /\ UNCHANGED <<archive, keyed, waiting, listing, reading>>

\* The answer arrives, or is lost and the client tries again.
SubmitAnswered ==
    /\ pc = "sent"
    /\ \/ pc' = "poll" /\ UNCHANGED job
       \/ pc' = "submit" /\ job' = {}
    /\ UNCHANGED <<jobs, archive, keyed, tries, waiting, listing, reading>>

-----------------------------------------------------------------------------
(* wait_for_terminal *)

Terminal(status) == status \in Board!Outcomes

\* The budget of the wait runs out.
Expire ==
    /\ ~expired /\ pc \in {"poll", "polled", "answered"}
    /\ expired' = TRUE
    /\ UNCHANGED <<jobs, archive, pc, submission, doc, last, listing, reading>>

\* The budget is looked at before each request.
Poll ==
    /\ pc = "poll"
    /\ pc' = IF expired THEN "gave up" ELSE "polled"
    /\ UNCHANGED <<jobs, archive, submission, waiting, listing, reading>>

\* get_job of the service.
Answer ==
    /\ pc = "polled"
    /\ \E k \in job : doc' = outcome[k]
    /\ pc' = "answered"
    /\ UNCHANGED <<jobs, archive, submission, last, expired, listing, reading>>

\* The request times out or its connection fails, before the service has
\* answered or after.
PollFails ==
    /\ pc \in {"polled", "answered"}
    /\ pc' = "gave up"
    /\ UNCHANGED <<jobs, archive, submission, waiting, listing, reading>>

\* The answer ends the wait if it is terminal and in time.
Ends(status) == Terminal(status) /\ ~expired

Receive ==
    /\ pc = "answered"
    /\ last' = doc
    /\ pc' = IF Ends(doc) THEN "ended" ELSE IF expired THEN "gave up" ELSE "poll"
    /\ UNCHANGED <<jobs, archive, submission, doc, expired, listing, reading>>

-----------------------------------------------------------------------------
(* GET /reports, page by page *)

\* Mutant: the row of the cursor is in the next page again.
FromCursor(r) == cursor = 0 \/ r <= cursor

\* Strictly below the cursor; without one, from the newest row on.
AfterCursor(r) == cursor = 0 \/ r < cursor

\* How many rows of a set are newer than row r.
Newer(r, rows) == Cardinality({s \in rows : s > r})

\* ORDER BY m.rowid DESC.
Descending(rows) ==
    [n \in 1..Cardinality(rows) |-> CHOOSE r \in rows : Newer(r, rows) = n - 1]

\* list_reports of the service, one query: the newest Limit rows below the
\* cursor, and a cursor if there is one more.
Page ==
    LET rows == {r \in Report : Store!Served(r) /\ AfterCursor(r)}
        page == {r \in rows : Newer(r, rows) < Limit}
        more == rows # page
    IN /\ got' = got \o Descending(page)
       /\ cursor' = IF more THEN Min(page) ELSE 0
       /\ pc' = IF more THEN "list" ELSE "listed"

\* The first page of a listing.
FirstPage ==
    /\ up /\ pc = "ended" /\ got = <<>> /\ cursor = 0
    /\ Page
    /\ steady' = {r \in Report : Store!Served(r)}
    /\ UNCHANGED <<jobs, archive, submission, waiting, reading>>

NextPage ==
    /\ up /\ pc = "list"
    /\ Page
    /\ UNCHANGED <<jobs, archive, submission, waiting, steady, reading>>

-----------------------------------------------------------------------------
(* GET /reports/{report_id}/file *)

\* The client asks for the version in show or for an artifact it knows of.
AskFile ==
    /\ pc \in {"ended", "read"}
    /\ asked' \in {c \in Content : file[Subject][c] # "off"} \cup {NoContent}
    /\ reply' = NoReply /\ row' = NoContent /\ shown' = {}
    /\ pc' = "file"
    /\ UNCHANGED <<jobs, archive, submission, waiting, listing>>

\* The artifact of the manifest row, whatever its state.
CurrentRow == current[Subject]

\* report_file: the manifest row and the artifact.
LookUp ==
    /\ up /\ pc = "file"
    /\ row' = IF asked # NoContent THEN asked ELSE CurrentRow
    /\ shown' = {InShow}
    /\ IF row' = NoContent
       THEN reply' = Refusal /\ pc' = "read"
       ELSE pc' = "looked up" /\ UNCHANGED reply
    /\ UNCHANGED <<jobs, archive, submission, waiting, listing, asked>>

\* Mutant: the bytes are not compared with the checksum.
UncheckedFile == file[Subject][row] # "off"

\* open_artifact: the artifact is ready and its file has the right bytes.
GoodFile == file[Subject][row] = "good"

\* open_artifact and the comparison with If-None-Match, which the client may
\* have from an earlier answer.
Open ==
    /\ up /\ pc = "looked up"
    /\ \/ /\ ~GoodFile
          /\ reply' = Refusal
       \/ /\ GoodFile
          /\ \E status \in {200, 304} : reply' = [status |-> status, etag |-> row]
    /\ pc' = "read"
    /\ UNCHANGED <<jobs, archive, submission, waiting, listing, asked, row, shown>>

Client ==
    \/ Submit \/ SubmitAnswered \/ Poll \/ Answer \/ PollFails \/ Receive
    \/ FirstPage \/ NextPage \/ AskFile \/ LookUp \/ Open

Next == JobEnds \/ ArchiveChanges \/ Restart \/ Reopen \/ Expire \/ Client

Spec == Init /\ [][Next]_vars

-----------------------------------------------------------------------------
(* Properties *)

\* A client that gives its key has one job, however often it had to submit, and
\* a wait that returns tells how that very job ended, which no later poll
\* contradicts; one that makes up a key for each attempt has at most as many
\* jobs as attempts.
WaitTells ==
    /\ Cardinality({k \in Key : accepted[k] # NoRequest}) <= IF keyed THEN 1 ELSE tries
    /\ pc \notin {"submit", "sent", "poll", "polled", "answered", "gave up"} =>
          \E k \in job : accepted[k] # NoRequest /\ Terminal(last) /\ last = outcome[k]

\* Reports that were served during the whole listing are in its pages, no
\* report is in two of them, and the rows go down.
PagesComplete ==
    /\ \A i, j \in DOMAIN got : i < j => got[i] > got[j]
    /\ pc = "listed" => steady \subseteq ToSet(got)

\* An answer with an ETag is about a version that was in show, its file good.
EtagShown == reply.etag # NoContent => <<reply.etag, TRUE>> \in shown

\* A version that was in show with a good file all the time is the answer.
SteadyAnswered ==
    \A c \in Content : shown = {<<c, TRUE>>} /\ reply.status # 0 => reply.etag = c

\* report_file, which reads the manifest, the artifact and the file one after
\* the other: without an artifact_id its answer is about a version that was in
\* show, undamaged, at some moment of the request, and a request during which
\* one and the same undamaged version stays in show is answered with it.
FileIsCurrent == asked = NoContent => EtagShown /\ SteadyAnswered

=============================================================================
