-------------------------- MODULE JobServiceProofs --------------------------
(***************************************************************************)
(* Proofs about JobService, for any number of submitting threads, keys,    *)
(* requests and securities, and any limits and bounds.                     *)
(***************************************************************************)
EXTENDS JobService, FiniteSetTheorems, TLAPS

\* A thread between BEGIN IMMEDIATE and the end of its transaction.
InTransaction(c) == cpc[c] \in {"lookup", "count", "insert"}

\* The executor has a job that the table shows as running.
AtWork == xpc \in {"running", "persist", "taskfail", "failing"}

\* What a submitting thread has found out stays true until it acts on it: the
\* write lock is held by the thread that is in its transaction, so nobody else
\* changes the table between its lookup, its count and its insert.
SubmitInv ==
    \A c \in Client :
        /\ InTransaction(c) <=> writer = c
        /\ cpc[c] # "idle" \/ reply[c] # "none" =>
             ckey[c] \in Key /\ crequest[c] \in Request
        /\ cpc[c] \in {"count", "insert"} => ~Exists(ckey[c])
        /\ cpc[c] = "insert" => ~QueueFull
        /\ cpc[c] = "wake" => Exists(ckey[c]) /\ jobRequest[ckey[c]] = crequest[c]
        /\ xpc = "down" => cpc[c] = "idle"

\* What the executor's program counter says of its job, that no other job is
\* running, and that a document is read of an existing key.
JobInv ==
    /\ \A k \in Key : jobStatus[k] = "none" <=> jobRequest[k] = NoRequest
    /\ \A k \in Key : jobStatus[k] = "none" => jobAttempt[k] = 0
    /\ \A j, k \in Key : jobStatus[j] = "running" /\ jobStatus[k] = "running" => j = k
    /\ AtWork => xjob \in Key /\ jobStatus[xjob] = "running"
    /\ xpc = "update" => xjob \in Key /\ jobStatus[xjob] = "queued"
    /\ rpc = "results" => rkey \in Key

\* The count of the unfinished jobs is a number.
PendingFinite == IsFiniteSet({k \in Key : Pending(k)})

IInv ==
    /\ TypeOK /\ SubmitInv /\ JobInv /\ PendingFinite
    /\ RepliesHold /\ NoIntegrityError /\ QueuedIsClaimable /\ RunningIsOwned

-----------------------------------------------------------------------------
(* Operators.                                                              *)

LEMMA MappedStatusType ==
  ASSUME NEW result \in Result
  PROVE  MappedStatus(result) \in RowStatus
  BY DEF MappedStatus, Result, RowStatus

LEMMA AggregateType ==
  ASSUME NEW results
  PROVE  Aggregate(results) \in Terminal
  BY DEF Aggregate, Terminal

LEMMA ClaimDeadlineType ==
  ASSUME TypeOK, NEW k \in Key
  PROVE  ClaimDeadline(k) \in Nat
  <1>1. /\ jobDeadline[k] \in Nat \cup {NoTime}
        /\ now \in Nat /\ JobDeadline \in Nat
    BY JobAssumption DEF JobAssumption, TypeOK
  <1> QED
    BY <1>1 DEF ClaimDeadline

LEMMA InitIInv == Init => IInv
  <1> SUFFICES ASSUME Init
               PROVE  IInv
    OBVIOUS
  <1> USE DEF Init, Exists, InTransaction, AtWork
  <1>1. TypeOK
    <2>1. /\ jobStatus \in [Key -> JobStatus] /\ jobError \in [Key -> JobErrors]
          /\ jobRequest \in [Key -> Request \cup {NoRequest}]
          /\ jobCreated \in [Key -> Nat] /\ jobDeadline \in [Key -> Nat \cup {NoTime}]
      BY DEF JobStatus, JobErrors
    <2>2. jobAttempt \in [Key -> 0..MaxAttempts]
      BY JobAssumption DEF JobAssumption
    <2>3. rows \in [Key -> [Security -> RowStatus]] /\ rrows \in [Security -> RowStatus]
      BY DEF RowStatus
    <2>4. /\ cpc \in [Client -> ClientPc] /\ reply \in [Client -> Replies]
          /\ ckey \in [Client -> Key \cup {NoKey}]
          /\ crequest \in [Client -> Request \cup {NoRequest}]
          /\ cstamp \in [Client -> Nat]
      BY DEF ClientPc, Replies
    <2>5. /\ writer = NoClient /\ xpc \in ExecutorPc /\ xjob = NoKey /\ xsym \in Nat \ {0}
          /\ xresult \in Result
          /\ rpc = "idle" /\ rkey = NoKey /\ rstatus \in JobStatus
      BY DEF ExecutorPc, Result, JobStatus
    <2>6. now \in Nat /\ submits \in Nat /\ reads \in Nat /\ crashes \in Nat /\ faults \in Nat
      OBVIOUS
    <2>7. seen \subseteq Result /\ wake \in BOOLEAN
      OBVIOUS
    <2> HIDE DEF Init
    <2> QED
      BY <2>1, <2>2, <2>3, <2>4, <2>5, <2>6, <2>7 DEF TypeOK
  <1>2. SubmitInv
    BY JobAssumption DEF JobAssumption, SubmitInv
  <1>3. JobInv
    BY DEF JobInv
  <1>4. PendingFinite
    <2>1. {k \in Key : Pending(k)} = {}
      BY DEF Pending
    <2> QED
      BY <2>1, FS_EmptySet DEF PendingFinite
  <1>5. RepliesHold /\ NoIntegrityError /\ QueuedIsClaimable /\ RunningIsOwned
    BY DEF RepliesHold, NoIntegrityError, QueuedIsClaimable, RunningIsOwned
  <1> QED
    BY <1>1, <1>2, <1>3, <1>4, <1>5 DEF IInv

-----------------------------------------------------------------------------
(* Type correctness.                                                       *)

LEMMA TypeOKPreserved ==
  ASSUME IInv, [Next]_vars
  PROVE  TypeOK'
  <1> TypeOK
    BY DEF IInv
  <1> USE JobAssumption
      DEF JobAssumption, TypeOK, JobStatus, JobErrors, Terminal, ExecutorPc, ClientPc,
          Replies, tableVars, jobVars, xVars, clientVars, readerVars, envVars
  <1>1. ASSUME NEW c \in Client, Submit(c)
        PROVE  TypeOK'
    <2>1. PICK k \in Key, q \in Request :
            ckey' = [ckey EXCEPT ![c] = k] /\ crequest' = [crequest EXCEPT ![c] = q]
      BY <1>1 DEF Submit
    <2> QED
      BY <1>1, <2>1 DEF Submit, GotoC
  <1>2. ASSUME NEW c \in Client, ClientStep(c) \/ SubmitRaises(c)
        PROVE  TypeOK'
    <2>1. CASE SubmitBegin(c)
      BY <2>1 DEF SubmitBegin, GotoC
    <2>2. CASE SubmitKnown(c)
      BY <2>2 DEF SubmitKnown, Answer, GotoC
    <2>3. CASE SubmitUnknown(c)
      BY <2>3 DEF SubmitUnknown, GotoC
    <2>4. CASE SubmitCount(c)
      <3>1. cpc' \in [Client -> ClientPc] /\ reply' \in [Client -> Replies]
        BY <2>4 DEF SubmitCount, Answer, GotoC
      <3>2. cstamp' \in [Client -> Nat] /\ writer' \in Client \cup {NoClient}
        BY <2>4 DEF SubmitCount, Answer
      <3> QED
        BY <2>4, <3>1, <3>2 DEF SubmitCount
    <2>5. CASE SubmitInsert(c)
      <3>1. /\ cpc' \in [Client -> ClientPc] /\ reply' \in [Client -> Replies]
            /\ cstamp' \in [Client -> Nat]
        <4>1. CASE Exists(ckey[c])
          <5>1. Answer(c, "integrity")
            BY <2>5, <4>1 DEF SubmitInsert
          <5> QED
            BY <5>1 DEF Answer, GotoC
        <4>2. CASE ~Exists(ckey[c])
          BY <2>5, <4>2 DEF SubmitInsert, GotoC
        <4> QED
          BY <4>1, <4>2
      <3>2. jobStatus' \in [Key -> JobStatus] /\ jobCreated' \in [Key -> Nat]
        BY <2>5 DEF SubmitInsert
      <3>3. jobRequest' \in [Key -> Request \cup {NoRequest}]
        BY <2>5 DEF SubmitInsert
      <3>4. UNCHANGED <<jobAttempt, jobDeadline, jobError>>
        BY <2>5 DEF SubmitInsert
      <3> QED
        BY <2>5, <3>1, <3>2, <3>3, <3>4 DEF SubmitInsert
    <2>6. CASE SubmitWake(c)
      BY <2>6 DEF SubmitWake, Answer, GotoC
    <2>7. CASE SubmitRaises(c)
      BY <2>7 DEF SubmitRaises, Answer, GotoC
    <2> QED
      BY <1>2, <2>1, <2>2, <2>3, <2>4, <2>5, <2>6, <2>7 DEF ClientStep
  <1>3. CASE ExecutorStep
    <2>1. CASE ClaimRead
      BY <2>1 DEF ClaimRead
    <2>2. CASE ClaimUpdate
      <3>1. CASE Exhausted(xjob)
        BY <2>2, <3>1 DEF ClaimUpdate
      <3>2. CASE ~Exhausted(xjob) /\ jobStatus[xjob] = "queued"
        <4>1. xjob \in Key
          BY <2>2 DEF IInv, JobInv, ClaimUpdate
        <4>2. jobAttempt' \in [Key -> 0..MaxAttempts]
          BY <2>2, <3>2, <4>1 DEF ClaimUpdate, Exhausted
        <4>3. jobDeadline' \in [Key -> Nat \cup {NoTime}]
          BY <2>2, <3>2, <4>1, ClaimDeadlineType DEF ClaimUpdate
        <4> QED
          BY <2>2, <3>2, <4>2, <4>3 DEF ClaimUpdate
      <3>3. CASE ~Exhausted(xjob) /\ jobStatus[xjob] # "queued"
        BY <2>2, <3>3 DEF ClaimUpdate
      <3> QED
        BY <3>1, <3>2, <3>3
    <2>3. CASE FetchSecurity
      BY <2>3 DEF FetchSecurity, Result
    <2>4. CASE PersistSymbol
      <3>1. rows' \in [Key -> [Security -> RowStatus]]
        BY <2>4, MappedStatusType DEF PersistSymbol
      <3> QED
        BY <2>4, <3>1 DEF PersistSymbol, Result
    <2>5. CASE FinishJob
      BY <2>5, AggregateType DEF FinishJob
    <2>6. CASE RefreshFlatIndex
      BY <2>6 DEF RefreshFlatIndex, RunJobReturns, Result
    <2>7. ASSUME NEW from, NEW error \in JobErrors, EndInError(from, error)
          PROVE  TypeOK'
      <3>1. jobStatus' \in [Key -> JobStatus] /\ jobError' \in [Key -> JobErrors]
        BY <2>7 DEF EndInError
      <3> QED
        BY <2>7, <3>1 DEF EndInError, RunJobReturns, Result
    <2>8. CASE WaitReturns \/ ClearWake
      BY <2>8 DEF WaitReturns, ClearWake
    <2> QED
      BY <1>3, <2>1, <2>2, <2>3, <2>4, <2>5, <2>6, <2>7, <2>8
      DEF ExecutorStep, FinishFailed, FailJob
  <1>4. CASE ExecutorFault
    BY <1>4 DEF ExecutorFault, FetchRaises, RunJobRaises, ExecutorDies, XRaises,
       WaitTimesOut
  <1>5. CASE ReaderStep
    <2>1. ASSUME NEW k \in Key, ReadJob(k)
          PROVE  TypeOK'
      BY <2>1 DEF ReadJob
    <2>2. CASE ReadResults
      <3>1. rkey \in Key
        BY <2>2 DEF IInv, JobInv, ReadResults
      <3> QED
        BY <2>2, <3>1 DEF ReadResults
    <2>3. CASE SendDocument
      BY <2>3 DEF SendDocument, RowStatus
    <2> QED
      BY <1>5, <2>1, <2>2, <2>3 DEF ReaderStep
  <1>6. CASE Crash
    <2>1. /\ cpc' \in [Client -> ClientPc] /\ cstamp' \in [Client -> Nat]
          /\ rrows' \in [Security -> RowStatus]
      BY <1>6 DEF Crash, RowStatus
    <2>2. /\ xpc' \in ExecutorPc /\ xjob' = NoKey /\ xsym' \in Nat \ {0}
          /\ xresult' \in Result
          /\ rpc' = "idle" /\ rkey' = NoKey /\ rstatus' \in JobStatus
          /\ writer' = NoClient /\ crashes' \in Nat
      BY <1>6 DEF Crash, RunJobReturns, Result
    <2>3. UNCHANGED <<jobVars, rows, ckey, crequest, reply, now, submits, reads, faults>>
      BY <1>6 DEF Crash
    <2>4. seen' \subseteq Result /\ wake' \in BOOLEAN
      BY <1>6 DEF Crash, RunJobReturns
    <2> QED
      BY <2>1, <2>2, <2>3, <2>4
  <1>7. CASE Recover
    BY <1>7 DEF Recover
  <1>8. CASE Tick
    BY <1>8 DEF Tick
  <1>9. CASE UNCHANGED vars
    BY <1>9 DEF vars
  <1> QED
    BY <1>1, <1>2, <1>3, <1>4, <1>5, <1>6, <1>7, <1>8, <1>9 DEF Next

-----------------------------------------------------------------------------
(* How the table changes.                                                  *)

\* An unfinished job takes another status.
Moved(k, status) ==
    /\ Pending(k)
    /\ jobStatus' = [jobStatus EXCEPT ![k] = status]
    /\ jobRequest' = jobRequest

\* A thread writes the row of a new job.
Inserted(c) ==
    /\ cpc[c] = "insert" /\ ~Exists(ckey[c])
    /\ jobStatus' = [jobStatus EXCEPT ![ckey[c]] = "queued"]
    /\ jobRequest' = [jobRequest EXCEPT ![ckey[c]] = crequest[c]]
    /\ UNCHANGED <<ckey, crequest>>

\* Steps of other threads than those that submit.
Elsewhere ==
    /\ UNCHANGED <<clientVars, writer>>
    /\ xpc' = "down" <=> xpc = "down"

\* Restarts included, a step moves at most one job to another status, and only
\* while no thread is in a transaction.
LEMMA TableChange ==
  ASSUME IInv, [Next]_vars
  PROVE  \/ UNCHANGED <<jobStatus, jobRequest>>
         \/ \E c \in Client : Inserted(c)
         \/ \E k \in Key, status \in JobStatus \ {"none"} :
              Moved(k, status) /\ UNCHANGED <<clientVars, writer>> /\ (NoLock \/ xpc = "down")
  <1> USE DEF tableVars, jobVars, xVars, clientVars, readerVars, envVars
  <1>1. ASSUME NEW c \in Client, Submit(c)
        PROVE  UNCHANGED <<jobStatus, jobRequest>>
    BY <1>1 DEF Submit
  <1>2. ASSUME NEW c \in Client, ClientStep(c)
        PROVE  UNCHANGED <<jobStatus, jobRequest>> \/ Inserted(c)
    <2>1. CASE SubmitInsert(c)
      <3>1. CASE Exists(ckey[c])
        BY <2>1, <3>1 DEF SubmitInsert
      <3>2. CASE ~Exists(ckey[c])
        BY <2>1, <3>2 DEF SubmitInsert, Inserted
      <3> QED
        BY <3>1, <3>2
    <2>2. CASE ~SubmitInsert(c)
      BY <1>2, <2>2
      DEF ClientStep, SubmitBegin, SubmitKnown, SubmitUnknown, SubmitCount, SubmitWake
    <2> QED
      BY <2>1, <2>2
  <1>3. ASSUME NEW c \in Client, SubmitRaises(c)
        PROVE  UNCHANGED <<jobStatus, jobRequest>>
    BY <1>3 DEF SubmitRaises
  <1>4. ASSUME ExecutorStep
        PROVE  \/ UNCHANGED <<jobStatus, jobRequest>>
               \/ \E k \in Key, status \in JobStatus \ {"none"} :
                    Moved(k, status) /\ UNCHANGED <<clientVars, writer>> /\ NoLock
    <2>1. CASE ClaimUpdate
      <3>1. xjob \in Key /\ jobStatus[xjob] = "queued"
        BY <2>1 DEF IInv, JobInv, ClaimUpdate
      <3>2. CASE Exhausted(xjob)
        <4>1. Moved(xjob, "failed") /\ UNCHANGED <<clientVars, writer>> /\ NoLock
          BY <2>1, <3>1, <3>2 DEF ClaimUpdate, Moved, Pending
        <4> QED
          BY <4>1, <3>1 DEF JobStatus, Terminal
      <3>3. CASE ~Exhausted(xjob)
        <4>1. Moved(xjob, "running") /\ UNCHANGED <<clientVars, writer>> /\ NoLock
          BY <2>1, <3>1, <3>3 DEF ClaimUpdate, Moved, Pending
        <4> QED
          BY <4>1, <3>1 DEF JobStatus, Terminal
      <3> QED
        BY <3>2, <3>3
    <2>2. CASE FinishJob
      <3>1. xjob \in Key /\ jobStatus[xjob] = "running"
        BY <2>2 DEF IInv, JobInv, AtWork, FinishJob
      <3>2. Moved(xjob, Aggregate(seen)) /\ UNCHANGED <<clientVars, writer>> /\ NoLock
        BY <2>2, <3>1 DEF FinishJob, Moved, Pending
      <3> QED
        BY <3>1, <3>2, AggregateType DEF JobStatus, Terminal
    <2>3. CASE FinishFailed \/ FailJob
      <3>1. xjob \in Key /\ jobStatus[xjob] = "running"
        BY <2>3 DEF IInv, JobInv, AtWork, FinishFailed, FailJob, EndInError
      <3>2. Moved(xjob, "failed") /\ UNCHANGED <<clientVars, writer>> /\ NoLock
        BY <2>3, <3>1 DEF FinishFailed, FailJob, EndInError, Moved, Pending
      <3> QED
        BY <3>1, <3>2 DEF JobStatus, Terminal
    <2>4. CASE \/ ClaimRead \/ FetchSecurity \/ PersistSymbol \/ RefreshFlatIndex
               \/ WaitReturns \/ ClearWake
      BY <2>4 DEF ClaimRead, FetchSecurity, PersistSymbol, RefreshFlatIndex, WaitReturns,
                  ClearWake
    <2> QED
      BY <1>4, <2>1, <2>2, <2>3, <2>4 DEF ExecutorStep
  <1>5. ASSUME ExecutorFault \/ ReaderStep \/ Crash \/ Tick \/ UNCHANGED vars
        PROVE  UNCHANGED <<jobStatus, jobRequest>>
    BY <1>5 DEF ExecutorFault, FetchRaises, RunJobRaises, ExecutorDies, XRaises, WaitTimesOut,
                ReaderStep, ReadJob, ReadResults, SendDocument, Crash, Tick, vars
  <1>6. ASSUME Recover
        PROVE  \/ UNCHANGED <<jobStatus, jobRequest>>
               \/ \E k \in Key, status \in JobStatus \ {"none"} :
                    Moved(k, status) /\ UNCHANGED <<clientVars, writer>> /\ xpc = "down"
    <2>1. jobStatus \in [Key -> JobStatus]
      BY DEF IInv, TypeOK
    <2>2. CASE \A k \in Key : ~Interrupted(k)
      <3>1. jobStatus' = jobStatus
        BY <1>6, <2>1, <2>2 DEF Recover
      <3> QED
        BY <1>6, <3>1 DEF Recover
    <2>3. ASSUME NEW k \in Key, Interrupted(k)
          PROVE  \E status \in JobStatus \ {"none"} :
                   Moved(k, status) /\ UNCHANGED <<clientVars, writer>> /\ xpc = "down"
      <3> DEFINE status == IF Exhausted(k) THEN "failed" ELSE "queued"
      <3>1. \A j \in Key : Interrupted(j) => j = k
        BY <2>3 DEF IInv, JobInv, Interrupted
      <3>2. jobStatus' = [jobStatus EXCEPT ![k] = status]
        BY <1>6, <2>1, <2>3, <3>1 DEF Recover
      <3>3. Moved(k, status)
        BY <1>6, <2>3, <3>2 DEF Recover, Moved, Interrupted, Pending
      <3>4. status \in JobStatus \ {"none"}
        BY DEF JobStatus, Terminal
      <3> QED
        BY <1>6, <3>3, <3>4 DEF Recover
    <2> QED
      BY <2>2, <2>3
  <1> QED
    BY <1>1, <1>2, <1>3, <1>4, <1>5, <1>6 DEF Next

\* A job keeps its key and its request for good, and a key has at most one.
LEMMA JobsStay ==
  ASSUME IInv, [Next]_vars, NEW k \in Key, Exists(k)
  PROVE  Exists(k)' /\ jobRequest'[k] = jobRequest[k]
  <1>1. /\ jobStatus \in [Key -> JobStatus]
        /\ jobRequest \in [Key -> Request \cup {NoRequest}]
    BY DEF IInv, TypeOK
  <1>2. ASSUME NEW c \in Client, Inserted(c)
        PROVE  Exists(k)' /\ jobRequest'[k] = jobRequest[k]
    BY <1>1, <1>2 DEF Inserted, Exists
  <1>3. ASSUME NEW j \in Key, NEW status \in JobStatus \ {"none"}, Moved(j, status)
        PROVE  Exists(k)' /\ jobRequest'[k] = jobRequest[k]
    BY <1>1, <1>3 DEF Moved, Exists
  <1> QED
    BY <1>2, <1>3, TableChange DEF Exists

\* The count that a submission compares with the limit is of a finite set.
LEMMA PendingFinitePreserved ==
  ASSUME IInv, [Next]_vars
  PROVE  PendingFinite'
  <1> DEFINE P == {k \in Key : Pending(k)}
  <1>1. IsFiniteSet(P) /\ jobStatus \in [Key -> JobStatus]
    BY DEF IInv, PendingFinite, TypeOK
  <1>2. CASE UNCHANGED jobStatus
    <2>1. P' = P
      BY <1>2 DEF Pending
    <2> QED
      BY <1>1, <2>1 DEF PendingFinite
  <1>3. ASSUME NEW k \in Key, NEW status, jobStatus' = [jobStatus EXCEPT ![k] = status]
        PROVE  PendingFinite'
    <2>1. P' \subseteq P \cup {k}
      BY <1>1, <1>3 DEF Pending
    <2>2. IsFiniteSet(P \cup {k})
      BY <1>1, FS_AddElement
    <2>3. IsFiniteSet(P')
      BY <2>1, <2>2, FS_Subset
    <2> QED
      BY <2>3 DEF PendingFinite
  <1>4. ASSUME NEW c \in Client, Inserted(c)
        PROVE  PendingFinite'
    <2>1. ckey[c] \in Key
      BY <1>4 DEF IInv, SubmitInv, Inserted
    <2> QED
      BY <1>3, <1>4, <2>1 DEF Inserted
  <1> QED
    BY <1>2, <1>3, <1>4, TableChange DEF Moved

-----------------------------------------------------------------------------
(* The rest of the invariant.                                              *)

\* Steps that leave the table and the submitting threads alone.
LEMMA QuietSteps ==
  ASSUME ExecutorFault \/ ReaderStep \/ Tick \/ UNCHANGED vars
  PROVE  UNCHANGED <<jobVars, clientVars, writer>> /\ (xpc' = "down" <=> xpc = "down")
  BY DEF ExecutorFault, FetchRaises, RunJobRaises, ExecutorDies, XRaises, WaitTimesOut,
         ReaderStep, ReadJob, ReadResults, SendDocument, Tick, vars, tableVars, jobVars, xVars,
         clientVars, readerVars, envVars

LEMMA ExecutorElsewhere ==
  ASSUME ExecutorStep \/ Recover
  PROVE  UNCHANGED <<clientVars, writer>> /\ xpc' # "down"
  BY DEF ExecutorStep, ClaimRead, ClaimUpdate, FetchSecurity, PersistSymbol, FinishJob,
         RefreshFlatIndex, FinishFailed, FailJob, EndInError, WaitReturns, ClearWake, Recover,
         RunJobReturns, tableVars, jobVars, xVars, clientVars, readerVars, envVars

LEMMA SubmitInvPreserved ==
  ASSUME IInv, [Next]_vars
  PROVE  SubmitInv'
  <1> USE JobAssumption DEF JobAssumption, InTransaction
  <1>0. /\ cpc \in [Client -> ClientPc] /\ reply \in [Client -> Replies]
        /\ ckey \in [Client -> Key \cup {NoKey}]
        /\ crequest \in [Client -> Request \cup {NoRequest}]
        /\ jobStatus \in [Key -> JobStatus] /\ jobRequest \in [Key -> Request \cup {NoRequest}]
        /\ writer \in Client \cup {NoClient}
        /\ SubmitInv
    BY DEF IInv, TypeOK
  <1>1. ASSUME UNCHANGED <<jobStatus, jobRequest>>
        PROVE  /\ \A k \in Key : Exists(k)' <=> Exists(k)
               /\ QueueFull' <=> QueueFull
    BY <1>1 DEF Exists, QueueFull, Pending
  <1>2. ASSUME ExecutorStep \/ ExecutorFault \/ ReaderStep \/ Recover \/ Tick \/ UNCHANGED vars
        PROVE  SubmitInv'
    <2>1. UNCHANGED <<clientVars, writer>> /\ (xpc' = "down" => xpc = "down")
      BY <1>2, QuietSteps, ExecutorElsewhere
    <2>2. CASE UNCHANGED <<jobStatus, jobRequest>>
      BY <1>0, <1>1, <2>1, <2>2 DEF SubmitInv, clientVars
    <2>3. CASE \A c \in Client : ~InTransaction(c)
      <3>1. ASSUME NEW c \in Client, cpc[c] = "wake"
            PROVE  Exists(ckey[c])' /\ jobRequest'[ckey[c]] = crequest[c]
        <4>1. ckey[c] \in Key /\ Exists(ckey[c]) /\ jobRequest[ckey[c]] = crequest[c]
          BY <1>0, <3>1 DEF SubmitInv
        <4>2. ckey' = ckey
          BY <2>1 DEF clientVars
        <4> QED
          BY <4>1, <4>2, JobsStay DEF Exists
      <3> QED
        BY <1>0, <2>1, <2>3, <3>1 DEF SubmitInv, clientVars
    <2>4. ASSUME NEW c \in Client, Inserted(c)
          PROVE  FALSE
      <3>1. jobStatus[ckey[c]] = "none" /\ ckey[c] \in Key /\ jobStatus'[ckey[c]] = "queued"
        BY <1>0, <2>4 DEF Inserted, Exists, SubmitInv
      <3>2. cpc[c] = "insert" /\ writer = c
        BY <1>0, <2>4 DEF Inserted, SubmitInv
      <3>3. xpc # "down" /\ ~NoLock
        BY <1>0, <3>2 DEF SubmitInv, NoLock
      <3>4. UNCHANGED jobStatus
        BY <1>0, <1>2, <3>1, <3>3, QuietSteps
        DEF ExecutorStep, ClaimRead, ClaimUpdate, FetchSecurity, PersistSymbol, FinishJob,
            RefreshFlatIndex, FinishFailed, FailJob, EndInError, WaitReturns, ClearWake, Recover,
            tableVars, jobVars
      <3> QED
        BY <3>1, <3>4
    <2>5. ASSUME NoLock \/ xpc = "down"
          PROVE  \A c \in Client : ~InTransaction(c)
      BY <1>0, <2>5 DEF SubmitInv, NoLock
    <2> QED
      BY <2>2, <2>3, <2>4, <2>5, TableChange
  <1>3. ASSUME NEW d \in Client, Submit(d)
        PROVE  SubmitInv'
    <2>1. PICK k \in Key, q \in Request :
            ckey' = [ckey EXCEPT ![d] = k] /\ crequest' = [crequest EXCEPT ![d] = q]
      BY <1>3 DEF Submit
    <2>2. /\ cpc[d] = "idle" /\ cpc' = [cpc EXCEPT ![d] = "begin"] /\ xpc # "down"
          /\ reply' = [reply EXCEPT ![d] = "none"]
          /\ UNCHANGED <<jobStatus, jobRequest, writer, xpc>>
      BY <1>3 DEF Submit, GotoC, Up, tableVars, jobVars, xVars
    <2> QED
      BY <1>0, <1>1, <2>1, <2>2 DEF SubmitInv
  <1>4. ASSUME NEW d \in Client, SubmitInsert(d)
        PROVE  SubmitInv'
    <2>1. /\ cpc[d] = "insert" /\ ckey[d] \in Key /\ ~Exists(ckey[d]) /\ writer = d
          /\ xpc # "down"
      BY <1>0, <1>4 DEF SubmitInsert, SubmitInv
    <2>2. /\ writer' = NoClient /\ cpc' = [cpc EXCEPT ![d] = "wake"]
          /\ jobStatus' = [jobStatus EXCEPT ![ckey[d]] = "queued"]
          /\ jobRequest' = [jobRequest EXCEPT ![ckey[d]] = crequest[d]]
          /\ UNCHANGED <<ckey, crequest, reply, xpc>>
      BY <1>4, <2>1 DEF SubmitInsert, GotoC, xVars
    <2>3. ASSUME NEW c \in Client, cpc[c] = "wake"
          PROVE  Exists(ckey[c])' /\ jobRequest'[ckey[c]] = crequest[c]
      <3>1. ckey[c] \in Key /\ Exists(ckey[c]) /\ jobRequest[ckey[c]] = crequest[c]
        BY <1>0, <2>3 DEF SubmitInv
      <3> QED
        BY <2>2, <3>1, JobsStay DEF Exists
    <2>4. Exists(ckey[d])' /\ jobRequest'[ckey[d]] = crequest[d]
      BY <1>0, <2>1, <2>2 DEF Exists
    <2>5. \A c \in Client : ~InTransaction(c)'
      BY <1>0, <2>1, <2>2 DEF SubmitInv
    <2> QED
      BY <1>0, <2>1, <2>2, <2>3, <2>4, <2>5 DEF SubmitInv
  <1>5. ASSUME NEW d \in Client, NEW word, Answer(d, word),
               writer' = IF writer = d THEN NoClient ELSE writer,
               cpc[d] # "idle",
               UNCHANGED <<jobStatus, jobRequest, ckey, crequest, xpc>>
        PROVE  SubmitInv'
    BY <1>0, <1>1, <1>5 DEF Answer, GotoC, SubmitInv
  <1>6. ASSUME NEW d \in Client, ClientStep(d) \/ SubmitRaises(d)
        PROVE  SubmitInv'
    <2> USE DEF tableVars, jobVars, xVars
    <2>1. CASE SubmitBegin(d)
      BY <1>0, <1>1, <2>1 DEF SubmitBegin, GotoC, NoLock, SubmitInv
    <2>2. CASE SubmitKnown(d)
      BY <1>0, <1>5, <2>2 DEF SubmitKnown, SubmitInv
    <2>3. CASE SubmitUnknown(d)
      BY <1>0, <1>1, <2>3 DEF SubmitUnknown, GotoC, SubmitInv
    <2>4. CASE SubmitCount(d) /\ QueueFull
      BY <1>0, <1>5, <2>4 DEF SubmitCount, SubmitInv
    <2>5. CASE SubmitCount(d) /\ ~QueueFull
      <3>1. /\ cpc[d] = "count" /\ cpc' = [cpc EXCEPT ![d] = "insert"]
            /\ UNCHANGED <<jobStatus, jobRequest, ckey, crequest, reply, writer, xpc>>
        BY <2>5 DEF SubmitCount, GotoC
      <3> QED
        BY <1>0, <1>1, <2>5, <3>1 DEF SubmitInv
    <2>6. CASE SubmitWake(d)
      BY <1>0, <1>5, <2>6 DEF SubmitWake, SubmitInv
    <2>7. CASE SubmitRaises(d)
      BY <1>0, <1>5, <2>7 DEF SubmitRaises
    <2> QED
      BY <1>4, <1>6, <2>1, <2>2, <2>3, <2>4, <2>5, <2>6, <2>7 DEF ClientStep
  <1>7. ASSUME Crash
        PROVE  SubmitInv'
    <2>1. /\ writer' = NoClient /\ cpc' = [c \in Client |-> "idle"]
          /\ UNCHANGED <<ckey, crequest, reply>>
      BY <1>7 DEF Crash
    <2> QED
      BY <1>0, <2>1 DEF SubmitInv
  <1> QED
    BY <1>2, <1>3, <1>6, <1>7 DEF Next

\* The parts about answers.
LEMMA RepliesHoldPreserved ==
  ASSUME IInv, [Next]_vars
  PROVE  RepliesHold' /\ NoIntegrityError'
  <1>0. /\ cpc \in [Client -> ClientPc] /\ reply \in [Client -> Replies]
        /\ SubmitInv /\ RepliesHold /\ NoIntegrityError
    BY DEF IInv, TypeOK
  <1>1. ASSUME NEW c \in Client, ckey[c] \in Key, UNCHANGED <<ckey, crequest, reply>>
        PROVE  /\ reply'[c] # "integrity"
               /\ reply'[c] \in {"accepted", "replayed"} =>
                    Exists(ckey[c])' /\ jobRequest'[ckey'[c]] = crequest'[c]
               /\ reply'[c] = "conflict" =>
                    Exists(ckey[c])' /\ jobRequest'[ckey'[c]] # crequest'[c]
    <2>1. Exists(ckey[c]) =>
            (ckey[c] \in Key /\ Exists(ckey[c])' /\ jobRequest'[ckey[c]] = jobRequest[ckey[c]])
      BY <1>1, JobsStay DEF Exists
    <2> QED
      BY <1>0, <1>1, <2>1 DEF RepliesHold, NoIntegrityError
  <1>2. CASE UNCHANGED <<ckey, crequest, reply>>
    <2>1. ASSUME NEW c \in Client
          PROVE  reply[c] = "none" \/ ckey[c] \in Key
      BY <1>0 DEF SubmitInv
    <2> QED
      BY <1>1, <1>2, <2>1 DEF RepliesHold, NoIntegrityError
  <1>3. ASSUME NEW d \in Client, NEW word \in Replies, Answer(d, word), word # "integrity",
               UNCHANGED <<ckey, crequest, jobStatus, jobRequest>>,
               word \in {"accepted", "replayed"} =>
                 Exists(ckey[d]) /\ jobRequest[ckey[d]] = crequest[d],
               word = "conflict" => Exists(ckey[d]) /\ jobRequest[ckey[d]] # crequest[d]
        PROVE  RepliesHold' /\ NoIntegrityError'
    BY <1>0, <1>3 DEF Answer, RepliesHold, NoIntegrityError, Exists
  <1>4. ASSUME NEW d \in Client, ClientStep(d) \/ SubmitRaises(d)
        PROVE  RepliesHold' /\ NoIntegrityError'
    <2> USE DEF tableVars, jobVars, Replies
    <2>1. CASE SubmitBegin(d) \/ SubmitUnknown(d)
      BY <1>2, <2>1 DEF SubmitBegin, SubmitUnknown
    <2>2. CASE SubmitKnown(d)
      <3>1. CASE SameRequest(d)
        <4>1. Answer(d, "replayed")
          BY <2>2, <3>1 DEF SubmitKnown
        <4> QED
          BY <1>3, <2>2, <3>1, <4>1 DEF SubmitKnown, SameRequest
      <3>2. CASE ~SameRequest(d)
        <4>1. Answer(d, "conflict")
          BY <2>2, <3>2 DEF SubmitKnown
        <4> QED
          BY <1>3, <2>2, <3>2, <4>1 DEF SubmitKnown, SameRequest
      <3> QED
        BY <3>1, <3>2
    <2>3. CASE SubmitCount(d)
      <3>1. CASE QueueFull
        BY <1>3, <2>3, <3>1 DEF SubmitCount
      <3>2. CASE ~QueueFull
        BY <1>2, <2>3, <3>2 DEF SubmitCount
      <3> QED
        BY <3>1, <3>2
    <2>4. CASE SubmitInsert(d)
      <3>1. ~Exists(ckey[d])
        BY <1>0, <2>4 DEF SubmitInsert, SubmitInv
      <3> QED
        BY <1>2, <2>4, <3>1 DEF SubmitInsert
    <2>5. CASE SubmitWake(d)
      <3>1. Exists(ckey[d]) /\ jobRequest[ckey[d]] = crequest[d]
        BY <1>0, <2>5 DEF SubmitWake, SubmitInv
      <3> QED
        BY <1>3, <2>5, <3>1 DEF SubmitWake
    <2>6. CASE SubmitRaises(d)
      BY <1>3, <2>6 DEF SubmitRaises
    <2> QED
      BY <1>4, <2>1, <2>2, <2>3, <2>4, <2>5, <2>6 DEF ClientStep
  <1>5. ASSUME NEW d \in Client, Submit(d)
        PROVE  RepliesHold' /\ NoIntegrityError'
    <2>1. /\ reply' = [reply EXCEPT ![d] = "none"]
          /\ UNCHANGED <<jobStatus, jobRequest>>
          /\ \A c \in Client \ {d} : ckey'[c] = ckey[c] /\ crequest'[c] = crequest[c]
      <3>1. PICK k \in Key, q \in Request :
              ckey' = [ckey EXCEPT ![d] = k] /\ crequest' = [crequest EXCEPT ![d] = q]
        BY <1>5 DEF Submit
      <3>2. ckey \in [Client -> Key \cup {NoKey}]
            /\ crequest \in [Client -> Request \cup {NoRequest}]
        BY DEF IInv, TypeOK
      <3> QED
        BY <1>5, <3>1, <3>2 DEF Submit, tableVars, jobVars
    <2> QED
      BY <1>0, <2>1 DEF RepliesHold, NoIntegrityError, Exists
  <1>6. CASE ExecutorStep \/ ExecutorFault \/ ReaderStep \/ Recover \/ Tick \/ UNCHANGED vars
    BY <1>2, <1>6, QuietSteps, ExecutorElsewhere DEF clientVars
  <1>7. CASE Crash
    BY <1>2, <1>7 DEF Crash
  <1> QED
    BY <1>4, <1>5, <1>6, <1>7 DEF Next

\* The parts about the executor and its job.
LEMMA JobInvPreserved ==
  ASSUME IInv, [Next]_vars
  PROVE  JobInv' /\ QueuedIsClaimable' /\ RunningIsOwned'
  <1>0. /\ jobStatus \in [Key -> JobStatus] /\ jobAttempt \in [Key -> 0..MaxAttempts]
        /\ jobRequest \in [Key -> Request \cup {NoRequest}]
        /\ JobInv /\ SubmitInv /\ QueuedIsClaimable /\ RunningIsOwned
    BY DEF IInv, TypeOK
  <1>1. (\A k \in Key : jobStatus[k] = "none" <=> jobRequest[k] = NoRequest)'
    <2>1. CASE UNCHANGED <<jobStatus, jobRequest>>
      BY <1>0, <2>1 DEF JobInv
    <2>2. ASSUME NEW c \in Client, Inserted(c)
          PROVE  (\A k \in Key : jobStatus[k] = "none" <=> jobRequest[k] = NoRequest)'
      <3>1. crequest[c] # NoRequest
        BY <1>0, <2>2, JobAssumption DEF JobAssumption, SubmitInv, Inserted
      <3> QED
        BY <1>0, <2>2, <3>1 DEF JobInv, Inserted
    <2>3. ASSUME NEW k \in Key, NEW status \in JobStatus \ {"none"}, Moved(k, status)
          PROVE  (\A j \in Key : jobStatus[j] = "none" <=> jobRequest[j] = NoRequest)'
      BY <1>0, <2>3 DEF JobInv, Moved, Pending
    <2> QED
      BY <2>1, <2>2, <2>3, TableChange
  <1>2. (rpc = "results" => rkey \in Key)'
    <2>1. CASE ReaderStep
      BY <1>0, <2>1 DEF JobInv, ReaderStep, ReadJob, ReadResults, SendDocument
    <2>2. CASE Crash
      BY <2>2 DEF Crash
    <2>3. CASE UNCHANGED <<rpc, rkey>>
      BY <1>0, <2>3 DEF JobInv
    <2>4. ASSUME NEW c \in Client, Submit(c) \/ ClientStep(c) \/ SubmitRaises(c)
          PROVE  UNCHANGED <<rpc, rkey>>
      BY <2>4 DEF Submit, ClientStep, SubmitBegin, SubmitKnown, SubmitUnknown, SubmitCount,
                  SubmitInsert, SubmitWake, SubmitRaises, readerVars
    <2>5. CASE ExecutorStep \/ ExecutorFault \/ Recover \/ Tick \/ UNCHANGED vars
      <3>1. UNCHANGED <<rpc, rkey>>
        BY <2>5 DEF ExecutorStep, ClaimRead, ClaimUpdate, FetchSecurity, PersistSymbol,
             FinishJob, RefreshFlatIndex, FinishFailed, FailJob, EndInError, WaitReturns,
             ClearWake, ExecutorFault, FetchRaises, RunJobRaises, ExecutorDies, XRaises,
             WaitTimesOut, Recover, Tick, vars, readerVars
      <3> QED
        BY <2>3, <3>1
    <2> QED
      BY <2>1, <2>2, <2>3, <2>4, <2>5 DEF Next
  <1>3. CASE ExecutorStep
    <2> USE <1>0 DEF AtWork, QueuedIsClaimable, RunningIsOwned, tableVars, jobVars, JobInv
    <2>1. CASE ClaimRead
      BY <2>1, <1>1, <1>2 DEF ClaimRead, Earliest
    <2>2. CASE ClaimUpdate
      <3>1. /\ xjob \in Key /\ jobStatus[xjob] = "queued" /\ ~Exhausted(xjob)
            /\ \A k \in Key : jobStatus[k] # "running"
        BY <2>2, JobAssumption DEF ClaimUpdate, Exhausted, JobAssumption
      <3>2. /\ jobStatus' = [jobStatus EXCEPT ![xjob] = "running"]
            /\ jobAttempt' = [jobAttempt EXCEPT ![xjob] = @ + 1]
            /\ xpc' = "running" /\ xjob' = xjob
        BY <2>2, <3>1 DEF ClaimUpdate
      <3> QED
        BY <1>1, <1>2, <3>1, <3>2
    <2>3. CASE FetchSecurity \/ PersistSymbol \/ RefreshFlatIndex \/ WaitReturns \/ ClearWake
      BY <2>3, <1>1, <1>2
      DEF FetchSecurity, PersistSymbol, RefreshFlatIndex, WaitReturns, ClearWake, RunJobReturns
    <2>4. ASSUME NEW status \in Terminal, xjob \in Key, jobStatus[xjob] = "running",
                 jobStatus' = [jobStatus EXCEPT ![xjob] = status],
                 jobAttempt' = jobAttempt, xpc' \in {"index", "claim"}
          PROVE  JobInv' /\ QueuedIsClaimable' /\ RunningIsOwned'
      BY <2>4, <1>1, <1>2 DEF Terminal
    <2>5. CASE FinishJob
      BY <2>4, <2>5, AggregateType DEF FinishJob
    <2>6. CASE FinishFailed \/ FailJob
      BY <2>4, <2>6 DEF FinishFailed, FailJob, EndInError, Terminal
    <2> QED
      BY <1>3, <2>1, <2>2, <2>3, <2>5, <2>6 DEF ExecutorStep
  <1>4. CASE ExecutorFault
    BY <1>0, <1>1, <1>2, <1>4
    DEF ExecutorFault, FetchRaises, RunJobRaises, ExecutorDies, XRaises, WaitTimesOut, AtWork,
        QueuedIsClaimable, RunningIsOwned, tableVars, jobVars, JobInv
  <1>5. CASE UNCHANGED <<jobVars, xVars>>
    BY <1>0, <1>1, <1>2, <1>5 DEF JobInv, AtWork, QueuedIsClaimable, RunningIsOwned, jobVars, xVars
  <1>6. CASE ReaderStep \/ Tick \/ UNCHANGED vars
    BY <1>5, <1>6 DEF ReaderStep, ReadJob, ReadResults, SendDocument, Tick, vars, tableVars
  <1>7. ASSUME NEW c \in Client, Submit(c) \/ ClientStep(c) \/ SubmitRaises(c)
        PROVE  JobInv' /\ QueuedIsClaimable' /\ RunningIsOwned'
    <2>1. CASE SubmitInsert(c) /\ ~Exists(ckey[c])
      <3>1. ckey[c] \in Key /\ jobStatus[ckey[c]] = "none"
        BY <1>0, <2>1 DEF SubmitInsert, SubmitInv, Exists
      <3>2. /\ jobStatus' = [jobStatus EXCEPT ![ckey[c]] = "queued"]
            /\ UNCHANGED <<jobAttempt, xVars>>
        BY <2>1 DEF SubmitInsert
      <3> QED
        BY <1>0, <1>1, <1>2, <3>1, <3>2, JobAssumption
        DEF JobAssumption, JobInv, AtWork, QueuedIsClaimable, RunningIsOwned, xVars
    <2>2. CASE SubmitInsert(c) /\ Exists(ckey[c])
      BY <1>5, <2>2 DEF SubmitInsert
    <2>3. CASE ~SubmitInsert(c)
      BY <1>5, <1>7, <2>3
      DEF Submit, ClientStep, SubmitBegin, SubmitKnown, SubmitUnknown, SubmitCount, SubmitWake,
          SubmitRaises, tableVars
    <2> QED
      BY <2>1, <2>2, <2>3
  <1>8. CASE Crash
    BY <1>0, <1>1, <1>2, <1>8
    DEF Crash, JobInv, AtWork, QueuedIsClaimable, RunningIsOwned, jobVars
  <1>9. CASE Recover
    <2>1. /\ \A k \in Key : jobStatus'[k] # "running"
          /\ \A k \in Key : jobStatus'[k] = "queued" => jobAttempt[k] < MaxAttempts
          /\ \A k \in Key : jobStatus'[k] = "none" => jobStatus[k] = "none"
          /\ jobAttempt' = jobAttempt /\ xpc' = "claim"
      BY <1>0, <1>9, JobAssumption
      DEF JobAssumption, Recover, Interrupted, Exhausted, QueuedIsClaimable
    <2> QED
      BY <1>0, <1>1, <1>2, <2>1 DEF JobInv, AtWork, QueuedIsClaimable, RunningIsOwned
  <1> QED
    BY <1>3, <1>4, <1>6, <1>7, <1>8, <1>9 DEF Next

-----------------------------------------------------------------------------
(* What the rows say of a job that ended, and what a document shows.       *)

\* While a job is run, the rows of the securities done so far hold the results
\* that run_job has in memory, and no others.
ResultInv ==
    /\ xpc \in {"claim", "update", "waiting", "woken", "down"} => xsym = 1 /\ seen = {}
    /\ xpc \in {"running", "persist"} =>
         /\ xsym <= Size[jobRequest[xjob]] + 1
         /\ {rows[xjob][i] : i \in 1..(xsym - 1)} = {MappedStatus(r) : r \in seen}
    /\ xpc = "persist" => xsym <= Size[jobRequest[xjob]]

\* Only failed jobs have an error of their own.
ErrorInv == \A k \in Key : jobError[k] # "none" => jobStatus[k] = "failed"

\* A terminal status that was read is still the job's, and the rows read after
\* it are too.
DocumentInv ==
    /\ rpc # "idle" => rkey \in Key
    /\ rpc # "idle" /\ rstatus \in Terminal => jobStatus[rkey] = rstatus
    /\ rpc = "document" /\ rstatus \in Terminal => rrows = rows[rkey]

RInv == ResultInv /\ ErrorInv /\ StatusMatchesRows /\ DocumentInv

\* job_symbols has a row for every security of every request.
LEMMA SecuritiesOf ==
  ASSUME NEW q \in Request
  PROVE  Size[q] \in Nat \ {0} /\ 1..Size[q] \subseteq Security
  <1> DEFINE sizes == {Size[r] : r \in Request}
             most == CHOOSE n \in sizes : \A r \in Request : Size[r] <= n
  <1>1. Size \in [Request -> Nat \ {0}]
    BY JobAssumption DEF JobAssumption
  <1>2. \E n \in sizes : \A r \in Request : Size[r] <= n
    BY SizeAssumption DEF SizeAssumption
  <1>3. most \in sizes /\ Size[q] <= most
    BY <1>2
  <1>4. Security = 1..most
    BY DEF Security
  <1>5. most \in Nat
    BY <1>1, <1>3
  <1> HIDE DEF most
  <1>6. Size[q] \in Nat \ {0}
    BY <1>1
  <1> QED
    BY <1>3, <1>4, <1>5, <1>6

\* Rows are written by _persist_symbol alone.
LEMMA RowChange ==
  ASSUME [Next]_vars
  PROVE  UNCHANGED rows \/ PersistSymbol
  BY DEF Next, Submit, ClientStep, SubmitBegin, SubmitKnown, SubmitUnknown, SubmitCount,
         SubmitInsert, SubmitWake, SubmitRaises, ExecutorStep, ClaimRead, ClaimUpdate,
         FetchSecurity, FinishJob, RefreshFlatIndex, FinishFailed, FailJob, EndInError,
         WaitReturns, ClearWake, ExecutorFault, FetchRaises, RunJobRaises, ExecutorDies, XRaises,
         WaitTimesOut, ReaderStep, ReadJob, ReadResults, SendDocument, Crash, Recover, Tick,
         vars, tableVars

\* An error is written when an unfinished job fails, and at no other time.
LEMMA ErrorChange ==
  ASSUME IInv, [Next]_vars, NEW k \in Key
  PROVE  \/ jobError'[k] = jobError[k]
         \/ Pending(k) /\ jobStatus'[k] = "failed"
  <1> USE DEF tableVars, jobVars
  <1>0. /\ jobStatus \in [Key -> JobStatus] /\ jobError \in [Key -> JobErrors] /\ JobInv
    BY DEF IInv, TypeOK
  <1>1. CASE ClaimUpdate
    <2>1. CASE Exhausted(xjob)
      BY <1>0, <1>1, <2>1 DEF ClaimUpdate, JobInv, Pending
    <2>2. CASE ~Exhausted(xjob)
      BY <1>1, <2>2 DEF ClaimUpdate
    <2> QED
      BY <2>1, <2>2
  <1>2. CASE FinishFailed \/ FailJob
    <2>1. xjob \in Key /\ jobStatus[xjob] = "running"
      BY <1>0, <1>2 DEF FinishFailed, FailJob, EndInError, JobInv, AtWork
    <2>2. /\ jobStatus' = [jobStatus EXCEPT ![xjob] = "failed"]
          /\ \E error : jobError' = [jobError EXCEPT ![xjob] = error]
      BY <1>2 DEF FinishFailed, FailJob, EndInError
    <2> QED
      BY <1>0, <2>1, <2>2 DEF Pending
  <1>3. CASE Recover
    BY <1>3 DEF Recover, Interrupted, Pending
  <1>4. CASE ~(ClaimUpdate \/ FinishFailed \/ FailJob \/ Recover)
    <2>1. UNCHANGED jobError
      BY <1>4
      DEF Next, Submit, ClientStep, SubmitBegin, SubmitKnown, SubmitUnknown, SubmitCount,
          SubmitInsert, SubmitWake, SubmitRaises, ExecutorStep, ClaimRead,
          FetchSecurity, PersistSymbol, FinishJob, RefreshFlatIndex,
          WaitReturns, ClearWake, ExecutorFault, FetchRaises, RunJobRaises, ExecutorDies, XRaises,
          WaitTimesOut, ReaderStep, ReadJob, ReadResults, SendDocument, Crash, Tick, vars
    <2> QED
      BY <2>1
  <1> QED
    BY <1>1, <1>2, <1>3, <1>4

\* A job that has ended keeps its status, its error, its request and its rows.
LEMMA EndedStays ==
  ASSUME IInv, [Next]_vars, NEW k \in Key, jobStatus[k] \in Terminal
  PROVE  /\ jobStatus'[k] = jobStatus[k] /\ jobError'[k] = jobError[k]
         /\ jobRequest'[k] = jobRequest[k] /\ rows'[k] = rows[k]
  <1>0. /\ jobStatus \in [Key -> JobStatus] /\ rows \in [Key -> [Security -> RowStatus]]
        /\ JobInv /\ Exists(k) /\ ~Pending(k)
    BY DEF IInv, TypeOK, Exists, Pending, Terminal
  <1>1. jobStatus'[k] = jobStatus[k]
    <2>1. ASSUME NEW c \in Client, Inserted(c)
          PROVE  jobStatus'[k] = jobStatus[k]
      BY <1>0, <2>1 DEF Inserted, Exists
    <2>2. ASSUME NEW j \in Key, NEW status \in JobStatus \ {"none"}, Moved(j, status)
          PROVE  jobStatus'[k] = jobStatus[k]
      BY <1>0, <2>2 DEF Moved
    <2> QED
      BY <2>1, <2>2, TableChange
  <1>2. jobError'[k] = jobError[k]
    BY <1>0, ErrorChange
  <1>3. jobRequest'[k] = jobRequest[k]
    BY <1>0, JobsStay
  <1>4. rows'[k] = rows[k]
    <2>1. CASE PersistSymbol
      <3>1. k # xjob
        BY <1>0, <2>1 DEF PersistSymbol, JobInv, AtWork, Terminal
      <3> QED
        BY <1>0, <2>1, <3>1 DEF PersistSymbol
    <2> QED
      BY <2>1, RowChange
  <1> QED
    BY <1>1, <1>2, <1>3, <1>4

LEMMA InitRInv == Init => RInv
  <1> SUFFICES ASSUME Init
               PROVE  RInv
    OBVIOUS
  <1>1. ResultInv /\ ErrorInv /\ DocumentInv
    BY DEF Init, ResultInv, ErrorInv, DocumentInv
  <1>2. StatusMatchesRows
    BY DEF Init, StatusMatchesRows, Terminal
  <1> QED
    BY <1>1, <1>2 DEF RInv

\* A row replaced or added under the next number adds its result to the results
\* in memory.
LEMMA PersistKeeps ==
  ASSUME IInv, ResultInv, PersistSymbol
  PROVE  ResultInv'
  <1> DEFINE k == xjob
             done == 1..(xsym - 1)
             new == MappedStatus(xresult)
  <1>0. /\ rows \in [Key -> [Security -> RowStatus]] /\ xsym \in Nat \ {0}
        /\ jobRequest \in [Key -> Request \cup {NoRequest}] /\ k \in Key
        /\ jobStatus[k] # "none"
    BY DEF IInv, TypeOK, JobInv, AtWork, PersistSymbol
  <1>1. jobRequest[k] \in Request
    BY <1>0 DEF IInv, JobInv
  <1>2. xsym <= Size[jobRequest[k]] /\ xsym \in Security /\ Size[jobRequest[k]] \in Nat
    BY <1>0, <1>1, SecuritiesOf DEF ResultInv, PersistSymbol
  <1>3. /\ rows' = [rows EXCEPT ![k][xsym] = new] /\ seen' = seen \cup {xresult}
        /\ xsym' = xsym + 1 /\ xpc' = "running" /\ xjob' = xjob /\ jobRequest' = jobRequest
    BY DEF PersistSymbol, jobVars
  <1>4. /\ rows'[k][xsym] = new
        /\ \A i \in Security \ {xsym} : rows'[k][i] = rows[k][i]
    BY <1>0, <1>2, <1>3
  <1>5. done \subseteq Security \ {xsym} /\ 1..(xsym' - 1) = done \cup {xsym}
    BY <1>0, <1>1, <1>2, <1>3, SecuritiesOf
  <1>6. {rows'[k][i] : i \in 1..(xsym' - 1)} = {rows[k][i] : i \in done} \cup {new}
    BY <1>4, <1>5
  <1>7. {MappedStatus(r) : r \in seen'} = {MappedStatus(r) : r \in seen} \cup {new}
    BY <1>3
  <1>8. {rows[k][i] : i \in done} = {MappedStatus(r) : r \in seen}
    BY DEF ResultInv, PersistSymbol
  <1>9. {rows'[k][i] : i \in 1..(xsym' - 1)} = {MappedStatus(r) : r \in seen'}
    BY <1>6, <1>7, <1>8
  <1>10. xsym' <= Size[jobRequest[k]] + 1
    BY <1>0, <1>2, <1>3
  <1> QED
    BY <1>3, <1>9, <1>10 DEF ResultInv

LEMMA ResultInvPreserved ==
  ASSUME IInv, ResultInv, [Next]_vars
  PROVE  ResultInv'
  <1>0. /\ jobRequest \in [Key -> Request \cup {NoRequest}] /\ xsym \in Nat \ {0}
        /\ JobInv
    BY DEF IInv, TypeOK
  <1>1. CASE PersistSymbol
    BY <1>1, PersistKeeps
  <1>2. CASE RefreshFlatIndex \/ FinishFailed \/ FailJob \/ Crash
    BY <1>2 DEF RefreshFlatIndex, FinishFailed, FailJob, EndInError, Crash, RunJobReturns, ResultInv
  <1>3. CASE ClaimUpdate
    <2>1. xsym = 1 /\ seen = {} /\ UNCHANGED <<rows, xsym, seen, jobRequest>>
      BY <1>3 DEF ClaimUpdate, ResultInv
    <2>2. xpc' \in {"waiting", "running"} /\ (xpc' = "running" => xjob' = xjob)
      BY <1>3 DEF ClaimUpdate
    <2>3. xpc' = "running" => Size[jobRequest[xjob]] \in Nat \ {0}
      <3>1. xjob \in Key /\ jobStatus[xjob] = "queued"
        BY <1>0, <1>3 DEF ClaimUpdate, JobInv
      <3>2. jobRequest[xjob] \in Request
        BY <1>0, <3>1 DEF JobInv
      <3> QED
        BY <3>2, SecuritiesOf
    <2>4. {rows[xjob][i] : i \in 1..(1 - 1)} = {} /\ {MappedStatus(r) : r \in {}} = {}
      OBVIOUS
    <2> QED
      BY <2>1, <2>2, <2>3, <2>4 DEF ResultInv
  <1>4. CASE FetchSecurity
    <2>1. /\ xpc = "running" /\ ~Last /\ xpc' = "persist"
          /\ UNCHANGED <<rows, xjob, xsym, seen, jobRequest>>
      BY <1>4 DEF FetchSecurity, tableVars, jobVars
    <2>2. Size[jobRequest[xjob]] \in Nat
      <3>1. xjob \in Key /\ jobStatus[xjob] = "running"
        BY <1>0, <2>1 DEF JobInv, AtWork
      <3>2. jobRequest[xjob] \in Request
        BY <1>0, <3>1 DEF JobInv
      <3> QED
        BY <3>2, SecuritiesOf
    <2>3. xsym <= Size[jobRequest[xjob]]
      BY <1>0, <2>1, <2>2 DEF Last
    <2> QED
      BY <2>1, <2>3 DEF ResultInv
  <1>5. CASE ClaimRead \/ WaitReturns \/ ClearWake \/ ExecutorFault \/ FinishJob \/ Recover
    BY <1>5
    DEF ClaimRead, WaitReturns, ClearWake, ExecutorFault, FetchRaises, RunJobRaises, ExecutorDies,
        XRaises, WaitTimesOut, FinishJob, Recover, ResultInv, tableVars, jobVars
  <1>6. CASE UNCHANGED <<xVars, rows, jobRequest>>
    BY <1>6 DEF ResultInv, xVars
  <1>7. CASE ReaderStep \/ Tick \/ UNCHANGED vars
    BY <1>6, <1>7 DEF ReaderStep, ReadJob, ReadResults, SendDocument, Tick, vars, tableVars, jobVars
  <1>8. ASSUME NEW c \in Client, Submit(c) \/ ClientStep(c) \/ SubmitRaises(c)
        PROVE  ResultInv'
    <2>1. UNCHANGED <<xVars, rows>>
      BY <1>8
      DEF Submit, ClientStep, SubmitBegin, SubmitKnown, SubmitUnknown, SubmitCount, SubmitInsert,
          SubmitWake, SubmitRaises, tableVars
    <2>2. ASSUME xpc \in {"running", "persist"}
          PROVE  jobRequest'[xjob] = jobRequest[xjob]
      BY <1>0, <1>8, <2>2, JobsStay DEF JobInv, AtWork, Exists, Next
    <2> QED
      BY <2>1, <2>2 DEF ResultInv, xVars
  <1> QED
    BY <1>1, <1>2, <1>3, <1>4, <1>5, <1>7, <1>8 DEF Next, ExecutorStep

\* _aggregate_status over the results of an attempt that got to the end is true
\* of the rows in the table.
LEMMA AggregateMatches ==
  ASSUME IInv, ResultInv, FinishJob
  PROVE  LET status == Aggregate(seen)
         IN /\ "none" \notin Rows(xjob)
            /\ status = "succeeded" => Rows(xjob) \in {{"succeeded"}, {"no_reports"}}
            /\ status = "partial" => Rows(xjob) \cap Usable # {} /\ Rows(xjob) # {"succeeded"}
            /\ status = "failed" => Rows(xjob) \cap Usable = {} /\ Rows(xjob) \cap Failure # {}
  <1> DEFINE size == Size[jobRequest[xjob]]
  <1>1. xjob \in Key /\ jobStatus[xjob] = "running" /\ xsym \in Nat \ {0} /\ seen \subseteq Result
    BY DEF IInv, TypeOK, JobInv, AtWork, FinishJob
  <1>2. jobRequest[xjob] \in Request
    BY <1>1 DEF IInv, TypeOK, JobInv
  <1>3. size \in Nat \ {0}
    BY <1>2, SecuritiesOf
  <1>4. xsym = size + 1
    BY <1>1, <1>3 DEF ResultInv, FinishJob, Last
  <1>5. Rows(xjob) = {MappedStatus(r) : r \in seen}
    <2>1. xsym - 1 = size
      BY <1>3, <1>4
    <2>2. {rows[xjob][i] : i \in 1..(xsym - 1)} = {MappedStatus(r) : r \in seen}
      BY DEF ResultInv, FinishJob
    <2> QED
      BY <2>1, <2>2 DEF Rows
  <1>6. 1 \in 1..size
    BY <1>3
  <1>7. seen # {}
    BY <1>5, <1>6 DEF Rows
  <1> HIDE DEF size
  <1>8. \A r \in Result :
          /\ MappedStatus(r) # "none"
          /\ MappedStatus(r) = "succeeded" <=> r = "ok"
          /\ MappedStatus(r) \in Usable <=> r \in {"ok", "partial"}
          /\ MappedStatus(r) \in Failure <=> r \in {"failed", "expired"}
          /\ MappedStatus(r) = "no_reports" <=> r = "empty"
    BY DEF MappedStatus, Result, Usable, Failure
  <1>9. /\ "none" \notin Rows(xjob)
        /\ Rows(xjob) = {"succeeded"} <=> seen = {"ok"}
        /\ Rows(xjob) = {"no_reports"} <=> seen = {"empty"}
        /\ Rows(xjob) \cap Usable = {} <=> seen \cap {"ok", "partial"} = {}
        /\ Rows(xjob) \cap Failure = {} <=> seen \cap {"failed", "expired"} = {}
    <2>1. \A r \in seen : MappedStatus(r) \in Rows(xjob) /\ r \in Result
      BY <1>1, <1>5
    <2>2. \A w \in Rows(xjob) : \E r \in seen : r \in Result /\ w = MappedStatus(r)
      BY <1>1, <1>5
    <2>3. "none" \notin Rows(xjob)
      BY <1>8, <2>2
    <2>4. Rows(xjob) = {"succeeded"} <=> seen = {"ok"}
      BY <1>7, <1>8, <2>1, <2>2
    <2>5. Rows(xjob) = {"no_reports"} <=> seen = {"empty"}
      BY <1>7, <1>8, <2>1, <2>2
    <2>6. Rows(xjob) \cap Usable = {} <=> seen \cap {"ok", "partial"} = {}
      BY <1>8, <2>1, <2>2
    <2>7. Rows(xjob) \cap Failure = {} <=> seen \cap {"failed", "expired"} = {}
      BY <1>8, <2>1, <2>2
    <2> QED
      BY <2>3, <2>4, <2>5, <2>6, <2>7
  <1>10. seen \cap {"ok", "partial"} = {} /\ seen \cap {"failed", "expired"} = {} => seen = {"empty"}
    BY <1>1, <1>7 DEF Result
  <1> QED
    BY <1>9, <1>10 DEF Aggregate

\* What StatusMatchesRows says of one job.
RowsMatch(k) ==
    /\ jobStatus[k] \in Terminal /\ jobError[k] = "none" => "none" \notin Rows(k)
    /\ jobStatus[k] = "succeeded" => Rows(k) \in {{"succeeded"}, {"no_reports"}}
    /\ jobStatus[k] = "partial" => Rows(k) \cap Usable # {} /\ Rows(k) # {"succeeded"}
    /\ jobStatus[k] = "failed" /\ jobError[k] = "none" =>
         Rows(k) \cap Usable = {} /\ Rows(k) \cap Failure # {}

LEMMA RowsPreserved ==
  ASSUME IInv, RInv, [Next]_vars
  PROVE  StatusMatchesRows' /\ ErrorInv'
  <1> SUFFICES ASSUME NEW k \in Key
               PROVE  RowsMatch(k)' /\ (jobError'[k] # "none" => jobStatus'[k] = "failed")
    BY DEF StatusMatchesRows, RowsMatch, ErrorInv
  <1>0. /\ jobStatus \in [Key -> JobStatus] /\ jobError \in [Key -> JobErrors]
        /\ ErrorInv /\ JobInv /\ RowsMatch(k) /\ jobStatus' \in [Key -> JobStatus]
    BY TypeOKPreserved DEF IInv, TypeOK, RInv, StatusMatchesRows, RowsMatch
  <1>1. CASE jobStatus[k] \in Terminal
    <2>1. /\ jobStatus'[k] = jobStatus[k] /\ jobError'[k] = jobError[k]
          /\ jobRequest'[k] = jobRequest[k] /\ rows'[k] = rows[k]
      BY <1>1, EndedStays
    <2>2. Rows(k)' = Rows(k)
      BY <2>1 DEF Rows
    <2> QED
      BY <1>0, <2>1, <2>2 DEF RowsMatch, ErrorInv
  <1>2. CASE jobStatus[k] \notin Terminal /\ jobStatus'[k] \notin Terminal
    BY <1>0, <1>2, ErrorChange DEF ErrorInv, RowsMatch, Terminal
  <1>3. CASE jobStatus[k] \notin Terminal /\ jobStatus'[k] \in Terminal
    <2>1. CASE FinishJob
      <3>1. xjob \in Key /\ jobStatus' = [jobStatus EXCEPT ![xjob] = Aggregate(seen)]
        BY <1>0, <2>1 DEF FinishJob, JobInv, AtWork
      <3>2. k = xjob /\ jobStatus'[k] = Aggregate(seen)
        BY <1>0, <1>3, <3>1
      <3>3. jobError' = jobError /\ Rows(k)' = Rows(k)
        BY <2>1 DEF FinishJob, Rows
      <3>4. jobError[k] = "none"
        BY <1>0, <1>3 DEF ErrorInv, Terminal
      <3> QED
        BY <2>1, <3>2, <3>3, <3>4, AggregateMatches DEF RowsMatch, RInv
    <2>2. CASE ~FinishJob
      <3>1. jobStatus'[k] = "failed" /\ jobError'[k] # "none"
        <4>1. CASE ClaimUpdate
          <5>1. xjob \in Key
            BY <1>0, <4>1 DEF ClaimUpdate, JobInv
          <5>2. CASE Exhausted(xjob)
            BY <1>0, <1>3, <4>1, <5>1, <5>2 DEF ClaimUpdate
          <5>3. CASE ~Exhausted(xjob)
            BY <1>0, <1>3, <4>1, <5>1, <5>3 DEF ClaimUpdate, Terminal
          <5> QED
            BY <5>2, <5>3
        <4>2. CASE FinishFailed \/ FailJob
          <5>1. xjob \in Key /\ jobStatus' = [jobStatus EXCEPT ![xjob] = "failed"]
            BY <1>0, <4>2 DEF FinishFailed, FailJob, EndInError, JobInv, AtWork
          <5>2. PICK error \in {"task", "internal"} : jobError' = [jobError EXCEPT ![xjob] = error]
            BY <4>2 DEF FinishFailed, FailJob, EndInError
          <5> QED
            BY <1>0, <1>3, <5>1, <5>2
        <4>3. CASE Recover
          BY <1>0, <1>3, <4>3 DEF Recover, Terminal
        <4>4. ASSUME NEW c \in Client, SubmitInsert(c)
              PROVE  FALSE
          <5>1. ckey[c] \in Key
            BY <4>4 DEF IInv, SubmitInv, SubmitInsert
          <5> QED
            BY <1>0, <1>3, <4>4, <5>1 DEF SubmitInsert, jobVars, Terminal
        <4>5. CASE /\ ~(ClaimUpdate \/ FinishFailed \/ FailJob \/ Recover)
                   /\ \A c \in Client : ~SubmitInsert(c)
          <5>1. UNCHANGED jobStatus
            BY <2>2, <4>5
            DEF Next, Submit, ClientStep, SubmitBegin, SubmitKnown, SubmitUnknown, SubmitCount,
                SubmitWake, SubmitRaises, ExecutorStep, ClaimRead,
                FetchSecurity, PersistSymbol, RefreshFlatIndex,
                WaitReturns, ClearWake, ExecutorFault, FetchRaises, RunJobRaises, ExecutorDies,
                XRaises, WaitTimesOut, ReaderStep, ReadJob, ReadResults, SendDocument, Crash, Tick,
                vars, tableVars, jobVars
          <5> QED
            BY <1>3, <5>1
        <4> QED
          BY <4>1, <4>2, <4>3, <4>4, <4>5
      <3> QED
        BY <3>1 DEF RowsMatch
    <2> QED
      BY <2>1, <2>2
  <1> QED
    BY <1>1, <1>2, <1>3

LEMMA DocumentInvPreserved ==
  ASSUME IInv, RInv, [Next]_vars
  PROVE  DocumentInv'
  <1>0. DocumentInv /\ jobStatus \in [Key -> JobStatus]
    BY DEF RInv, IInv, TypeOK
  <1>1. ASSUME NEW k \in Key, ReadJob(k)
        PROVE  DocumentInv'
    BY <1>1 DEF ReadJob, DocumentInv, tableVars, jobVars
  <1>2. CASE ReadResults
    BY <1>0, <1>2 DEF ReadResults, DocumentInv, tableVars, jobVars
  <1>3. CASE SendDocument \/ Crash
    BY <1>3 DEF SendDocument, Crash, DocumentInv
  <1>4. CASE UNCHANGED readerVars
    <2>1. ASSUME rpc # "idle", rstatus \in Terminal
          PROVE  jobStatus'[rkey] = jobStatus[rkey] /\ rows'[rkey] = rows[rkey]
      BY <1>0, <2>1, EndedStays DEF DocumentInv
    <2> QED
      BY <1>0, <1>4, <2>1 DEF DocumentInv, readerVars
  <1>5. CASE ~(ReaderStep \/ Crash)
    <2>1. UNCHANGED readerVars
      BY <1>5
      DEF Next, Submit, ClientStep, SubmitBegin, SubmitKnown, SubmitUnknown, SubmitCount,
          SubmitInsert, SubmitWake, SubmitRaises, ExecutorStep, ClaimRead, ClaimUpdate,
          FetchSecurity, PersistSymbol, FinishJob, RefreshFlatIndex, FinishFailed, FailJob,
          EndInError, WaitReturns, ClearWake, ExecutorFault, FetchRaises, RunJobRaises,
          ExecutorDies, XRaises, WaitTimesOut, Recover, Tick, vars
    <2> QED
      BY <1>4, <2>1
  <1> QED
    BY <1>1, <1>2, <1>3, <1>5 DEF ReaderStep

-----------------------------------------------------------------------------
(* Theorems.                                                               *)

\* The inductive invariant holds in every reachable state.
THEOREM Invariance == Spec => []IInv
  <1>1. IInv /\ [Next]_vars => IInv'
    BY TypeOKPreserved, SubmitInvPreserved, JobInvPreserved, PendingFinitePreserved,
       RepliesHoldPreserved
    DEF IInv
  <1> QED
    BY InitIInv, <1>1, PTL DEF Spec

\* The rows of an ended job, and the document made of them, hold as well.
LEMMA RInvariance == Spec => []RInv
  <1>1. IInv /\ RInv /\ [Next]_vars => RInv'
    BY ResultInvPreserved, RowsPreserved, DocumentInvPreserved DEF RInv
  <1> QED
    BY InitRInv, <1>1, Invariance, PTL DEF Spec

\* Rows, program counters and locals of the job service keep to their domains.
THEOREM TypeCorrect == Spec => []TypeOK
  <1>1. IInv => TypeOK
    BY DEF IInv
  <1> QED
    BY Invariance, <1>1, PTL

\* What submit answered stays true across crashes and restarts, with any
\* number of threads and retries under one key.
THEOREM AnswersStayTrue == Spec => []RepliesHold
  <1>1. IInv => RepliesHold
    BY DEF IInv
  <1> QED
    BY Invariance, <1>1, PTL

\* BEGIN IMMEDIATE is enough: the insert of submit never meets a row that was
\* not there at its lookup.
THEOREM NoUniqueViolation == Spec => []NoIntegrityError
  <1>1. IInv => NoIntegrityError
    BY DEF IInv
  <1> QED
    BY Invariance, <1>1, PTL

\* recover leaves no queued job whose attempts are used up, so claim_next
\* never has to refuse one.
THEOREM QueuedHasAttempts == Spec => []QueuedIsClaimable
  <1>1. IInv => QueuedIsClaimable
    BY DEF IInv
  <1> QED
    BY Invariance, <1>1, PTL

\* A job is shown as running only while the one executor has it, or until the
\* restart after a crash.
THEOREM RunningHasOwner == Spec => []RunningIsOwned
  <1>1. IInv => RunningIsOwned
    BY DEF IInv
  <1> QED
    BY Invariance, <1>1, PTL

\* _aggregate_status: the status of an ended job agrees with the rows of its
\* securities, whatever attempts, crashes and recoveries came before.
THEOREM RowsMatchStatus == Spec => []StatusMatchesRows
  <1>1. RInv => StatusMatchesRows
    BY DEF RInv
  <1> QED
    BY RInvariance, <1>1, PTL

\* get_job: a status document that shows an ended job, unless an error ended it,
\* has a row for every one of its securities, although its two SELECTs share no
\* transaction.
THEOREM DocumentsComplete == Spec => []DocumentComplete
  <1>1. IInv /\ RInv => DocumentComplete
    BY DEF RInv, DocumentInv, StatusMatchesRows, DocumentComplete, Rows
  <1> QED
    BY Invariance, RInvariance, <1>1, PTL

\* COALESCE(deadline, ...) of claim_next: the first claim fixes the deadline
\* for all attempts.
THEOREM DeadlineNeverMoves == Spec => DeadlineIsFixed
  <1>1. ASSUME IInv, [Next]_vars, NEW k \in Key, jobDeadline[k] # NoTime
        PROVE  jobDeadline'[k] = jobDeadline[k]
    <2> USE DEF tableVars, jobVars, xVars, clientVars, readerVars, envVars
    <2>0. jobDeadline \in [Key -> Nat \cup {NoTime}]
      BY <1>1 DEF IInv, TypeOK
    <2>1. CASE ExecutorStep /\ ~ClaimUpdate
      BY <2>1
      DEF ExecutorStep, ClaimRead, FetchSecurity, PersistSymbol, FinishJob, RefreshFlatIndex,
          FinishFailed, FailJob, EndInError, WaitReturns, ClearWake
    <2>2. CASE ClaimUpdate
      <3>1. \/ UNCHANGED jobDeadline
            \/ jobDeadline' = [jobDeadline EXCEPT ![xjob] = ClaimDeadline(xjob)]
        BY <2>2 DEF ClaimUpdate
      <3> QED
        BY <1>1, <2>0, <3>1 DEF ClaimDeadline
    <2>3. ASSUME NEW c \in Client, Submit(c) \/ ClientStep(c) \/ SubmitRaises(c)
          PROVE  UNCHANGED jobDeadline
      BY <2>3
      DEF Submit, ClientStep, SubmitBegin, SubmitKnown, SubmitUnknown, SubmitCount,
          SubmitInsert, SubmitWake, SubmitRaises
    <2>4. CASE Crash \/ Recover
      BY <2>4 DEF Crash, Recover
    <2>5. CASE ExecutorFault \/ ReaderStep \/ Tick \/ UNCHANGED vars
      BY <2>5, QuietSteps
    <2> QED
      BY <1>1, <2>1, <2>2, <2>3, <2>4, <2>5 DEF Next
  <1>2. IInv /\ [Next]_vars =>
          [\A k \in Key : jobDeadline[k] # NoTime => jobDeadline'[k] = jobDeadline[k]]_vars
    BY <1>1
  <1> QED
    BY Invariance, <1>2, PTL DEF Spec, DeadlineIsFixed

\* The job service implements the job board: a key is given one job, with the
\* request it came with and only while fewer than max_pending_jobs are
\* unfinished, and a job ends at most once.
THEOREM Refinement == Spec => ImplementsJobBoard
  <1> DEFINE Outcome == [k \in Key |-> IF jobStatus[k] \in Terminal THEN jobStatus[k]
                                       ELSE "pending"]
  <1>1. Init => B!Init
    BY DEF Init, B!Init, Terminal
  <1>2. ASSUME IInv, [Next]_vars
        PROVE  [B!Next]_B!boardVars
    <2>0. /\ jobStatus \in [Key -> JobStatus]
          /\ jobRequest \in [Key -> Request \cup {NoRequest}]
          /\ JobInv /\ SubmitInv
      BY <1>2 DEF IInv, TypeOK
    <2>1. B!Pending = {k \in Key : Pending(k)}
      BY <2>0 DEF B!Pending, Pending, JobInv, JobStatus, Terminal
    <2>2. CASE UNCHANGED <<jobStatus, jobRequest>>
      BY <2>2 DEF B!boardVars
    <2>3. ASSUME NEW c \in Client, Inserted(c)
          PROVE  B!Next
      <3>1. /\ ckey[c] \in Key /\ crequest[c] \in Request
            /\ jobStatus[ckey[c]] = "none" /\ jobRequest[ckey[c]] = NoRequest
        BY <2>0, <2>3 DEF SubmitInv, JobInv, Inserted, Exists
      <3>2. B!Cardinality(B!Pending) < MaxPending
        <4>0. \A S : B!Cardinality(S) = Cardinality(S)
          BY DEF B!Cardinality, Cardinality
        <4>1. Cardinality({k \in Key : Pending(k)}) \in Nat
          BY <1>2, FS_CardinalityType DEF IInv, PendingFinite
        <4>2. ~QueueFull
          BY <2>0, <2>3 DEF SubmitInv, Inserted
        <4> QED
          BY <2>1, <4>0, <4>1, <4>2, JobAssumption DEF JobAssumption, QueueFull
      <3>3. Outcome' = Outcome
        BY <2>0, <2>3, <3>1 DEF Inserted, Terminal
      <3>4. jobRequest' = [jobRequest EXCEPT ![ckey[c]] = crequest[c]]
        BY <2>3 DEF Inserted
      <3>5. B!Accept(ckey[c], crequest[c])
        BY <3>1, <3>2, <3>3, <3>4 DEF B!Accept
      <3> QED
        BY <3>1, <3>5 DEF B!Next
    <2>4. ASSUME NEW k \in Key, NEW status \in JobStatus \ {"none"}, Moved(k, status)
          PROVE  [B!Next]_B!boardVars
      <3>1. CASE status \in Terminal
        <4>1. Outcome' = [Outcome EXCEPT ![k] = status]
          BY <2>0, <2>4, <3>1 DEF Moved
        <4>2. k \in B!Pending
          BY <2>1, <2>4 DEF Moved
        <4>3. B!End(k, status)
          BY <2>4, <4>1, <4>2 DEF B!End, Moved
        <4> QED
          BY <3>1, <4>3 DEF B!Next, B!Outcomes, Terminal
      <3>2. CASE status \notin Terminal
        <4>1. Outcome' = Outcome
          BY <2>0, <2>4, <3>2 DEF Moved, Pending, Terminal
        <4> QED
          BY <2>4, <4>1 DEF B!boardVars, Moved
      <3> QED
        BY <3>1, <3>2
    <2> QED
      BY <1>2, <2>2, <2>3, <2>4, TableChange
  <1> QED
    BY Invariance, <1>1, <1>2, PTL DEF Spec, B!Spec, ImplementsJobBoard
=============================================================================
