----------------------------- MODULE JobService -----------------------------
(***************************************************************************)
(* The job service of reports_fetcher (jobs.py): HTTP threads that submit  *)
(* and read jobs, one executor thread that runs them, the SQLite tables    *)
(* jobs and job_symbols they meet in, and the restart that picks up what   *)
(* an earlier process left.                                                *)
(*                                                                         *)
(* A job is named by its Key, the pair (client_id, idempotency_key) that   *)
(* the table holds UNIQUE.  A Request stands for the normalised request    *)
(* and its hash at once; its distinct securities are 1..Size[q], in the    *)
(* order they are fetched.  Fetching one security (FetchService.fetch) is  *)
(* one step with any result: the archive behind it is module ArchiveStore. *)
(***************************************************************************)
EXTENDS Integers, FiniteSets

CONSTANTS Client,       \* HTTP worker threads that handle submissions
          Key,          \* (client_id, idempotency_key) pairs in use
          Request,      \* normalised requests
          Size,         \* Size[q]: number of distinct securities of q
          NoClient, NoKey, NoRequest,
          NoTime,       \* NULL in jobs.deadline
          MaxPending,   \* config: max_pending_jobs
          MaxAttempts,  \* config: max_job_attempts
          JobDeadline,  \* config: job_deadline_seconds
          SourceResult, \* results that fetching a security may have
          MaxTime,      \* bound: clock ticks
          MaxSubmit,    \* bound: submissions in one behaviour
          MaxRead,      \* bound: status documents read
          MaxCrash,     \* bound: process deaths
          MaxFault      \* bound: exceptions in the executor or a submission

ASSUME JobAssumption ==
    /\ NoClient \notin Client /\ NoKey \notin Key /\ NoRequest \notin Request /\ NoTime \notin Nat
    /\ Size \in [Request -> Nat \ {0}]
    /\ MaxPending \in Nat \ {0} /\ MaxAttempts \in Nat \ {0} /\ JobDeadline \in Nat
    /\ SourceResult \subseteq {"ok", "partial", "empty", "failed"}
    /\ SourceResult # {}
    /\ MaxTime \in Nat /\ MaxSubmit \in Nat /\ MaxRead \in Nat /\ MaxCrash \in Nat /\ MaxFault \in Nat

\* config: max_symbols_per_job bounds the securities of a request, so that one
\* request has the most.
ASSUME SizeAssumption ==
    Request # {} => \E q \in Request : \A r \in Request : Size[r] <= Size[q]

VARIABLES
    \* table jobs, one row per accepted key
    jobStatus, jobRequest, jobAttempt, jobCreated, jobDeadline, jobError,
    rows,        \* table job_symbols: rows[k][i] of the i-th security of job k
    writer,      \* thread that holds the write lock across statements, or NoClient
    \* executor thread
    xpc, xjob, xsym, xresult, seen,
    wake,        \* threading.Event _wake
    \* submitting threads
    cpc, ckey, crequest, cstamp, reply,
    \* one reading thread (GET fetch-jobs/{job_id})
    rpc, rkey, rstatus, rrows,
    \* environment
    now, submits, reads, crashes, faults

jobVars    == <<jobStatus, jobRequest, jobAttempt, jobCreated, jobDeadline, jobError>>
tableVars  == <<jobVars, rows, writer>>
xVars      == <<xpc, xjob, xsym, xresult, seen>>
clientVars == <<cpc, ckey, crequest, cstamp, reply>>
readerVars == <<rpc, rkey, rstatus, rrows>>
envVars    == <<now, submits, reads, crashes, faults>>
vars == <<tableVars, xVars, wake, clientVars, readerVars, envVars>>

Terminal  == {"succeeded", "partial", "failed"}
JobStatus == {"none", "queued", "running"} \cup Terminal
JobErrors == {"none", "recovery_exhausted", "task", "internal"}

\* FetchResult.status; "expired" is a failed result with job_deadline_exceeded.
Result    == {"ok", "partial", "empty", "failed", "expired"}
RowStatus == {"none", "succeeded", "partial", "no_reports", "failed", "expired"}

Security == 1..(CHOOSE n \in {Size[q] : q \in Request} : \A q \in Request : Size[q] <= n)

ExecutorPc == {"claim", "update", "running", "persist", "taskfail", "failing", "index",
               "waiting", "woken", "dead", "down"}
ClientPc   == {"idle", "begin", "lookup", "count", "insert", "wake"}
Replies    == {"none", "accepted", "replayed", "conflict", "full", "integrity", "error"}

Exists(k)  == jobStatus[k] # "none"
Pending(k) == jobStatus[k] \in {"queued", "running"}
NoLock     == writer = NoClient
Up         == xpc # "down"

\* Mutant: the result is stored under its internal name.
RawStatus(result) == result

\* status_map of _persist_symbol.
MappedStatus(result) ==
    IF result = "ok" THEN "succeeded"
    ELSE IF result = "empty" THEN "no_reports" ELSE result

\* _aggregate_status over the results of this attempt.  A security with
\* warnings is never "ok" (_finalize_status), so the query for warnings adds
\* nothing to what the results say.
Aggregate(results) ==
    IF results \cap {"ok", "partial"} = {} /\ results \cap {"failed", "expired"} # {}
    THEN "failed"
    ELSE IF results = {"empty"} \/ results = {"ok"} THEN "succeeded" ELSE "partial"

-----------------------------------------------------------------------------
Init ==
    /\ jobStatus = [k \in Key |-> "none"]
    /\ jobRequest = [k \in Key |-> NoRequest]
    /\ jobAttempt = [k \in Key |-> 0]
    /\ jobCreated = [k \in Key |-> 0]
    /\ jobDeadline = [k \in Key |-> NoTime]
    /\ jobError = [k \in Key |-> "none"]
    /\ rows = [k \in Key |-> [i \in Security |-> "none"]]
    /\ writer = NoClient
    /\ xpc = "claim" /\ xjob = NoKey /\ xsym = 1 /\ xresult = "empty" /\ seen = {}
    /\ wake = FALSE
    /\ cpc = [c \in Client |-> "idle"]
    /\ ckey = [c \in Client |-> NoKey]
    /\ crequest = [c \in Client |-> NoRequest]
    /\ cstamp = [c \in Client |-> 0]
    /\ reply = [c \in Client |-> "none"]
    /\ rpc = "idle" /\ rkey = NoKey /\ rstatus = "none"
    /\ rrows = [i \in Security |-> "none"]
    /\ now = 0 /\ submits = 0 /\ reads = 0 /\ crashes = 0 /\ faults = 0

-----------------------------------------------------------------------------
(* submit: idempotency lookup, queue count and insert in one write         *)
(* transaction, then the wake-up.                                          *)

GotoC(c, label) == cpc' = [cpc EXCEPT ![c] = label]

\* The request is answered; its time stamp goes with the thread's other locals.
Answer(c, word) ==
    /\ GotoC(c, "idle")
    /\ reply' = [reply EXCEPT ![c] = word]
    /\ cstamp' = [cstamp EXCEPT ![c] = 0]

\* A client sends a request, a new one or a retry under a key in use.  The
\* time stamp of the job row is taken before the write lock is.
Submit(c) ==
    /\ Up /\ cpc[c] = "idle" /\ submits < MaxSubmit
    /\ submits' = submits + 1
    /\ \E k \in Key, q \in Request :
         /\ ckey' = [ckey EXCEPT ![c] = k]
         /\ crequest' = [crequest EXCEPT ![c] = q]
    /\ cstamp' = [cstamp EXCEPT ![c] = now]
    /\ reply' = [reply EXCEPT ![c] = "none"]
    /\ GotoC(c, "begin")
    /\ UNCHANGED <<tableVars, xVars, wake, readerVars, now, reads, crashes,
                   faults>>

\* Mutant: a plain BEGIN, which takes no lock before the first write.
SubmitBeginDeferred(c) ==
    /\ cpc[c] = "begin"
    /\ GotoC(c, "lookup")
    /\ UNCHANGED <<tableVars, xVars, wake, ckey, crequest, cstamp, reply, readerVars,
                   envVars>>

\* BEGIN IMMEDIATE takes the write lock at once.
SubmitBegin(c) ==
    /\ cpc[c] = "begin" /\ NoLock
    /\ writer' = c
    /\ GotoC(c, "lookup")
    /\ UNCHANGED <<jobVars, rows, xVars, wake, ckey, crequest, cstamp, reply,
                   readerVars, envVars>>

\* Mutant: the request hash is not compared.
AnyRequest(c) == jobRequest[ckey[c]] \in Request

SameRequest(c) == jobRequest[ckey[c]] = crequest[c]

\* A known key ends the transaction: replayed if the request is the same.
SubmitKnown(c) ==
    /\ cpc[c] = "lookup" /\ Exists(ckey[c])
    /\ Answer(c, IF SameRequest(c) THEN "replayed" ELSE "conflict")
    /\ writer' = NoClient
    /\ UNCHANGED <<jobVars, rows, xVars, wake, ckey, crequest, readerVars,
                   envVars>>

SubmitUnknown(c) ==
    /\ cpc[c] = "lookup" /\ ~Exists(ckey[c])
    /\ GotoC(c, "count")
    /\ UNCHANGED <<tableVars, xVars, wake, ckey, crequest, cstamp, reply, readerVars,
                   envVars>>

\* Mutant: off by one.
QueueOverfull == Cardinality({k \in Key : Pending(k)}) > MaxPending

QueueFull == Cardinality({k \in Key : Pending(k)}) >= MaxPending

SubmitCount(c) ==
    /\ cpc[c] = "count"
    /\ IF QueueFull
       THEN Answer(c, "full") /\ writer' = NoClient
       ELSE GotoC(c, "insert") /\ UNCHANGED <<writer, cstamp, reply>>
    /\ UNCHANGED <<jobVars, rows, xVars, wake, ckey, crequest, readerVars, envVars>>

\* INSERT and COMMIT; the UNIQUE constraint refuses a key already there.
SubmitInsert(c) ==
    /\ cpc[c] = "insert"
    /\ writer' = NoClient
    /\ IF Exists(ckey[c])
       THEN Answer(c, "integrity") /\ UNCHANGED jobVars
       ELSE /\ jobStatus' = [jobStatus EXCEPT ![ckey[c]] = "queued"]
            /\ jobRequest' = [jobRequest EXCEPT ![ckey[c]] = crequest[c]]
            /\ jobCreated' = [jobCreated EXCEPT ![ckey[c]] = cstamp[c]]
            /\ GotoC(c, "wake")
            /\ UNCHANGED <<jobAttempt, jobDeadline, jobError, cstamp, reply>>
    /\ UNCHANGED <<rows, xVars, wake, ckey, crequest, readerVars, envVars>>

\* Mutant: the executor is not woken.
SubmitSilently(c) ==
    /\ cpc[c] = "wake"
    /\ Answer(c, "accepted")
    /\ UNCHANGED <<tableVars, xVars, wake, ckey, crequest, readerVars, envVars>>

SubmitWake(c) ==
    /\ cpc[c] = "wake"
    /\ wake' = TRUE
    /\ Answer(c, "accepted")
    /\ UNCHANGED <<tableVars, xVars, ckey, crequest, readerVars, envVars>>

\* A statement of the transaction raises (a busy database): rolled back.
SubmitRaises(c) ==
    /\ cpc[c] \in {"begin", "lookup", "count", "insert"} /\ faults < MaxFault
    /\ faults' = faults + 1
    /\ writer' = IF writer = c THEN NoClient ELSE writer
    /\ Answer(c, "error")
    /\ UNCHANGED <<jobVars, rows, xVars, wake, ckey, crequest, readerVars, now,
                   submits, reads, crashes>>

ClientStep(c) ==
    \/ SubmitBegin(c) \/ SubmitKnown(c) \/ SubmitUnknown(c) \/ SubmitCount(c)
    \/ SubmitInsert(c) \/ SubmitWake(c)

-----------------------------------------------------------------------------
(* The executor.                                                           *)

\* The queued job with the earliest created_at; equal stamps are frequent
\* (one-second resolution) and leave the choice to the database.
Earliest(k) ==
    /\ jobStatus[k] = "queued"
    /\ \A j \in Key : jobStatus[j] = "queued" => jobCreated[k] <= jobCreated[j]

\* claim_next, its SELECT: no transaction is open yet.
ClaimRead ==
    /\ xpc = "claim"
    /\ \/ \E k \in Key : Earliest(k) /\ xjob' = k /\ xpc' = "update"
       \/ (\A k \in Key : jobStatus[k] # "queued") /\ xpc' = "waiting" /\ UNCHANGED xjob
    /\ UNCHANGED <<tableVars, xsym, xresult, seen, wake, clientVars, readerVars, envVars>>

\* Mutant: one attempt too many.
ExhaustedLate(k) == jobAttempt[k] > MaxAttempts

Exhausted(k) == jobAttempt[k] >= MaxAttempts

\* Mutant: every claim sets a deadline of its own.
RenewedDeadline(k) == now + JobDeadline

\* COALESCE(deadline, ...).
ClaimDeadline(k) ==
    IF jobDeadline[k] = NoTime THEN now + JobDeadline ELSE jobDeadline[k]

\* claim_next, its UPDATE: the deadline is set once, at the first claim.  The
\* UPDATE looks for "queued" again, but the job is run whatever it found.
ClaimUpdate ==
    /\ xpc = "update" /\ NoLock
    /\ IF Exhausted(xjob)
       THEN /\ jobStatus' = [jobStatus EXCEPT ![xjob] = "failed"]
            /\ jobError' = [jobError EXCEPT ![xjob] = "recovery_exhausted"]
            /\ xpc' = "waiting" /\ xjob' = NoKey
            /\ UNCHANGED <<jobAttempt, jobDeadline>>
       ELSE /\ IF jobStatus[xjob] = "queued"
               THEN /\ jobStatus' = [jobStatus EXCEPT ![xjob] = "running"]
                    /\ jobAttempt' = [jobAttempt EXCEPT ![xjob] = @ + 1]
                    /\ jobDeadline' = [jobDeadline EXCEPT ![xjob] = ClaimDeadline(xjob)]
               ELSE UNCHANGED <<jobStatus, jobAttempt, jobDeadline>>
            /\ xpc' = "running"
            /\ UNCHANGED <<jobError, xjob>>
    /\ UNCHANGED <<jobRequest, jobCreated, rows, writer, xsym, xresult, seen, wake,
                   clientVars, readerVars, envVars>>

\* The locals of run_job go with it.
RunJobReturns == xjob' = NoKey /\ xsym' = 1 /\ xresult' = "empty" /\ seen' = {}

\* Mutant: the last security is left out.
LastButOne == xsym >= Size[jobRequest[xjob]]

Last == xsym > Size[jobRequest[xjob]]

\* One security: past the deadline it fails without any work, otherwise it
\* has whatever result the sources lead to.
FetchSecurity ==
    /\ xpc = "running" /\ ~Last
    /\ IF now > jobDeadline[xjob]
       THEN xresult' = "expired"
       ELSE xresult' \in SourceResult
    /\ xpc' = "persist"
    /\ UNCHANGED <<tableVars, xjob, xsym, seen, wake, clientVars, readerVars, envVars>>

\* _persist_symbol: the row is inserted, or replaces that of an earlier attempt.
PersistSymbol ==
    /\ xpc = "persist" /\ NoLock
    /\ rows' = [rows EXCEPT ![xjob][xsym] = MappedStatus(xresult)]
    /\ seen' = seen \cup {xresult}
    /\ xsym' = xsym + 1 /\ xresult' = "empty"
    /\ xpc' = "running"
    /\ UNCHANGED <<jobVars, writer, xjob, wake, clientVars, readerVars, envVars>>

\* _finish_job with the aggregated status.
FinishJob ==
    /\ xpc = "running" /\ Last /\ NoLock
    /\ jobStatus' = [jobStatus EXCEPT ![xjob] = Aggregate(seen)]
    /\ xpc' = "index"
    /\ UNCHANGED <<jobRequest, jobAttempt, jobCreated, jobDeadline, jobError, rows, writer,
                   xjob, xsym, xresult, seen, wake, clientVars, readerVars, envVars>>

\* _refresh_flat_index: best effort, any exception of it is swallowed.
RefreshFlatIndex ==
    /\ xpc = "index"
    /\ xpc' = "claim" /\ RunJobReturns
    /\ UNCHANGED <<tableVars, wake, clientVars, readerVars, envVars>>

\* fetch raises a ReportsFetcherError (no SEC user agent, a broken store).
FetchRaises ==
    /\ xpc = "running" /\ ~Last /\ faults < MaxFault
    /\ faults' = faults + 1
    /\ xpc' = "taskfail"
    /\ UNCHANGED <<tableVars, xjob, xsym, xresult, seen, wake, clientVars, readerVars, now,
                   submits, reads, crashes>>

\* Mutant: the summary does not say that an error ended the job.
EndUnexplained(from, error) ==
    /\ xpc = from /\ NoLock
    /\ jobStatus' = [jobStatus EXCEPT ![xjob] = "failed"]
    /\ xpc' = "claim" /\ RunJobReturns
    /\ UNCHANGED <<jobRequest, jobAttempt, jobCreated, jobDeadline, jobError, rows,
                   writer, wake, clientVars, readerVars, envVars>>

\* The failed form of _finish_job, and _fail_job of the executor loop.
EndInError(from, error) ==
    /\ xpc = from /\ NoLock
    /\ jobStatus' = [jobStatus EXCEPT ![xjob] = "failed"]
    /\ jobError' = [jobError EXCEPT ![xjob] = error]
    /\ xpc' = "claim" /\ RunJobReturns
    /\ UNCHANGED <<jobRequest, jobAttempt, jobCreated, jobDeadline, rows, writer, wake,
                   clientVars, readerVars, envVars>>

FinishFailed == EndInError("taskfail", "task")
FailJob      == EndInError("failing", "internal")

XRaises(label) ==
    /\ faults < MaxFault
    /\ faults' = faults + 1
    /\ xpc' = label
    /\ UNCHANGED <<tableVars, xjob, xsym, xresult, seen, wake, clientVars, readerVars, now,
                   submits, reads, crashes>>

\* Any other exception inside run_job goes to _fail_job.
RunJobRaises == xpc \in {"running", "persist", "taskfail"} /\ XRaises("failing")

\* An exception of claim_next or of _fail_job itself leaves the loop, and the
\* thread ends.
ExecutorDies == xpc \in {"claim", "update", "failing"} /\ XRaises("dead")

\* _wake.wait(timeout=1.0) returns because the event is set ...
WaitReturns ==
    /\ xpc = "waiting" /\ wake
    /\ xpc' = "woken"
    /\ UNCHANGED <<tableVars, xjob, xsym, xresult, seen, wake, clientVars, readerVars,
                   envVars>>

\* ... or because the time is up.
WaitTimesOut ==
    /\ xpc = "waiting" /\ ~wake
    /\ xpc' = "woken"
    /\ UNCHANGED <<tableVars, xjob, xsym, xresult, seen, wake, clientVars, readerVars,
                   envVars>>

ClearWake ==
    /\ xpc = "woken"
    /\ wake' = FALSE
    /\ xpc' = "claim"
    /\ UNCHANGED <<tableVars, xjob, xsym, xresult, seen, clientVars, readerVars, envVars>>

ExecutorStep ==
    \/ ClaimRead \/ ClaimUpdate \/ FetchSecurity \/ PersistSymbol \/ FinishJob
    \/ RefreshFlatIndex \/ FinishFailed \/ FailJob \/ WaitReturns \/ ClearWake

ExecutorFault == FetchRaises \/ RunJobRaises \/ ExecutorDies \/ WaitTimesOut

-----------------------------------------------------------------------------
(* get_job: the job row first, the rows of its securities after it, in     *)
(* separate statements.                                                    *)

ReadJob(k) ==
    /\ Up /\ rpc = "idle" /\ Exists(k) /\ reads < MaxRead
    /\ reads' = reads + 1
    /\ rkey' = k /\ rstatus' = jobStatus[k]
    /\ rpc' = "results"
    /\ UNCHANGED <<tableVars, xVars, wake, clientVars, rrows, now, submits, crashes,
                   faults>>

ReadResults ==
    /\ rpc = "results"
    /\ rrows' = rows[rkey]
    /\ rpc' = "document"
    /\ UNCHANGED <<tableVars, xVars, wake, clientVars, rkey, rstatus, envVars>>

\* The document is sent.
SendDocument ==
    /\ rpc = "document"
    /\ rpc' = "idle" /\ rkey' = NoKey /\ rstatus' = "none"
    /\ rrows' = [i \in Security |-> "none"]
    /\ UNCHANGED <<tableVars, xVars, wake, clientVars, envVars>>

ReaderStep == (\E k \in Key : ReadJob(k)) \/ ReadResults \/ SendDocument

-----------------------------------------------------------------------------
(* The process and the clock.                                              *)

\* Threads and their open transactions are gone, committed rows stay.  A
\* client that got no answer may submit again under the same key.
Crash ==
    /\ crashes < MaxCrash
    /\ crashes' = crashes + 1
    /\ xpc' = "down" /\ RunJobReturns
    /\ wake' = FALSE /\ writer' = NoClient
    /\ cpc' = [c \in Client |-> "idle"]
    /\ rpc' = "idle" /\ rkey' = NoKey /\ rstatus' = "none"
    /\ rrows' = [i \in Security |-> "none"]
    /\ cstamp' = [c \in Client |-> 0]
    /\ UNCHANGED <<jobVars, rows, ckey, crequest, reply, now, submits, reads, faults>>

\* Mutant: only jobs that still have time are taken up again.
InterruptedInTime(k) == jobStatus[k] = "running" /\ now <= jobDeadline[k]

Interrupted(k) == jobStatus[k] = "running"

\* recover, one transaction, then start: a job found running is queued again,
\* or fails if its attempts are used up.
Recover ==
    /\ xpc = "down"
    /\ jobStatus' = [k \in Key |-> IF ~Interrupted(k) THEN jobStatus[k]
                                   ELSE IF Exhausted(k) THEN "failed" ELSE "queued"]
    /\ jobError' = [k \in Key |-> IF Interrupted(k) /\ Exhausted(k)
                                  THEN "recovery_exhausted" ELSE jobError[k]]
    /\ xpc' = "claim"
    /\ UNCHANGED <<jobRequest, jobAttempt, jobCreated, jobDeadline, rows, writer, xjob, xsym,
                   xresult, seen, wake, clientVars, readerVars, envVars>>

Tick ==
    /\ now < MaxTime
    /\ now' = now + 1
    /\ UNCHANGED <<tableVars, xVars, wake, clientVars, readerVars, submits, reads,
                   crashes, faults>>

Next ==
    \/ \E c \in Client : Submit(c) \/ ClientStep(c) \/ SubmitRaises(c)
    \/ ExecutorStep
    \/ ExecutorFault
    \/ ReaderStep
    \/ Crash
    \/ Recover
    \/ Tick

Spec == Init /\ [][Next]_vars

\* Threads keep running and a dead process is restarted.  Nothing is assumed
\* of the timeout of the wait: the wake-up alone must be enough.
FairSpec ==
    /\ Spec
    /\ \A c \in Client : WF_vars(ClientStep(c))
    /\ WF_vars(ExecutorStep)
    /\ WF_vars(Recover)

-----------------------------------------------------------------------------
(* Properties.                                                             *)

\* Rows, program counters and locals stay within their domains.
TypeOK ==
    /\ jobStatus \in [Key -> JobStatus]
    /\ jobRequest \in [Key -> Request \cup {NoRequest}]
    /\ jobAttempt \in [Key -> 0..MaxAttempts]
    /\ jobCreated \in [Key -> Nat]
    /\ jobDeadline \in [Key -> Nat \cup {NoTime}]
    /\ jobError \in [Key -> JobErrors]
    /\ rows \in [Key -> [Security -> RowStatus]]
    /\ writer \in Client \cup {NoClient}
    /\ xpc \in ExecutorPc /\ xjob \in Key \cup {NoKey} /\ xsym \in Nat \ {0}
    /\ xresult \in Result /\ seen \subseteq Result /\ wake \in BOOLEAN
    /\ cpc \in [Client -> ClientPc]
    /\ ckey \in [Client -> Key \cup {NoKey}]
    /\ crequest \in [Client -> Request \cup {NoRequest}]
    /\ cstamp \in [Client -> Nat]
    /\ reply \in [Client -> Replies]
    /\ rpc \in {"idle", "results", "document"} /\ rkey \in Key \cup {NoKey}
    /\ rstatus \in JobStatus /\ rrows \in [Security -> RowStatus]
    /\ now \in Nat /\ submits \in Nat /\ reads \in Nat /\ crashes \in Nat /\ faults \in Nat

\* An answer stays true, whatever happens afterwards: an accepted or replayed
\* submission is in the table with the very request the client sent, across
\* crashes, and a conflict is answered only to a different request.
RepliesHold ==
    \A c \in Client :
        /\ reply[c] \in {"accepted", "replayed"} =>
             Exists(ckey[c]) /\ jobRequest[ckey[c]] = crequest[c]
        /\ reply[c] = "conflict" =>
             Exists(ckey[c]) /\ jobRequest[ckey[c]] # crequest[c]

\* Concurrent submissions under one key never meet in the UNIQUE constraint:
\* one is accepted, the others are answered by its row.
NoIntegrityError == \A c \in Client : reply[c] # "integrity"

\* Recovery hands the executor only jobs it may still attempt, so the check
\* of claim_next never fires and no job is counted past its attempts.
QueuedIsClaimable ==
    \A k \in Key : jobStatus[k] = "queued" => jobAttempt[k] < MaxAttempts

\* A running job has an executor that will end it, or a dead process whose
\* restart will; nobody else's.
RunningIsOwned ==
    \A k \in Key :
        jobStatus[k] = "running" =>
            xpc \in {"down", "dead"} \/ (xjob = k /\ xpc \in
                {"running", "persist", "taskfail", "failing"})

Rows(k)   == {rows[k][i] : i \in 1..Size[jobRequest[k]]}
Usable    == {"succeeded", "partial"}
Failure   == {"failed", "expired"}

\* HTTP_API section 4 for a job that ends without a job-level error, over the
\* rows in the table, which an earlier attempt may have written, while the
\* status was aggregated from what this attempt holds in memory.
StatusMatchesRows ==
    \A k \in Key :
        /\ jobStatus[k] \in Terminal /\ jobError[k] = "none" => "none" \notin Rows(k)
        /\ jobStatus[k] = "succeeded" =>
             Rows(k) \in {{"succeeded"}, {"no_reports"}}
        /\ jobStatus[k] = "partial" =>
             Rows(k) \cap Usable # {} /\ Rows(k) # {"succeeded"}
        /\ jobStatus[k] = "failed" /\ jobError[k] = "none" =>
             Rows(k) \cap Usable = {} /\ Rows(k) \cap Failure # {}

\* A document that shows an aggregated terminal status also shows the result
\* of every security, although the two were read by separate statements.
DocumentComplete ==
    rpc = "document" /\ rstatus \in Terminal /\ jobError[rkey] = "none" =>
        \A i \in 1..Size[jobRequest[rkey]] : rrows[i] # "none"

\* The execution limit counts from the first claim and no restart extends it.
DeadlineIsFixed ==
    [][\A k \in Key : jobDeadline[k] # NoTime => jobDeadline'[k] = jobDeadline[k]]_vars

\* What a job accepted under each key has come to, as clients may see it.
B == INSTANCE JobBoard WITH
       accepted <- jobRequest,
       outcome  <- [k \in Key |-> IF jobStatus[k] \in Terminal THEN jobStatus[k]
                                  ELSE "pending"]

\* One job per key, never more than max_pending_jobs unfinished, terminal
\* statuses final: the service with its threads, restarts and retries does
\* what JobBoard promises.
ImplementsJobBoard == B!Spec

\* Every accepted job ends, through crashes and restarts, as long as the
\* executor thread lives; its death is what /health/ready reports.
JobsEnd ==
    \A k \in Key : Pending(k) ~> jobStatus[k] \in Terminal \/ xpc = "dead"

\* HTTP_API section 4: a failed job has no usable report.
FailedMeansNothingUsable ==
    \A k \in Key : jobStatus[k] = "failed" => Rows(k) \cap Usable = {}

\* HTTP_API section 4: a result that was there when the deadline passed is
\* kept; only unfinished ones become job_deadline_exceeded.
DeadlineKeepsResults ==
    [][\A k \in Key, i \in Security : rows[k][i] \in Usable => rows'[k][i] # "expired"]_vars
=============================================================================
