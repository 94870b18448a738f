---------------------------- MODULE ArchiveStore ----------------------------
(***************************************************************************)
(* The archive of reports_fetcher: class Store (store.py) and the download *)
(* stage of FetchService (core.py) that is its only writer.                *)
(*                                                                         *)
(* A report's file reaches the archive in four steps that no single        *)
(* transaction covers: a "registered" intent row, a verified temporary     *)
(* file, a transaction that stages the artifact row and completes the      *)
(* intent, an atomic rename, and a transaction that publishes the          *)
(* version.  Each step is an action here, the process may die between any  *)
(* two of them, and the next start runs the recovery scan one intent at a  *)
(* time.                                                                   *)
(*                                                                         *)
(* Data is abstract.  A Content stands for a file's bytes and its SHA-256  *)
(* at once; artifact ids are derived from (report, sha256), so an artifact *)
(* is a pair of Report and Content.  A Name stands for what the target     *)
(* path takes from metadata that a later discovery may have changed (title,*)
(* report period), so <<report, content, name>> is a path under the root.  *)
(***************************************************************************)
EXTENDS Integers, FiniteSets

CONSTANTS Report,      \* reports the manifest may hold
          Content,     \* file contents the sources may deliver
          Name,        \* metadata variants of a report's target path
          NoContent,   \* NULL in current_artifact_id / expected_sha256
          NoName,      \* NULL in target_rel_path / local_path
          NoReport,    \* report of an attempt that was never registered
          MaxAttempt,  \* bound: download attempts in one behaviour
          MaxCrash,    \* bound: process deaths
          MaxFault,    \* bound: steps that raise (network, OSError, sqlite3)
          MaxTamper    \* bound: files damaged or removed behind the store

ASSUME ArchiveAssumption ==
    /\ NoContent \notin Content
    /\ NoName \notin Name
    /\ NoReport \notin Report
    /\ MaxAttempt \in Nat /\ MaxCrash \in Nat
    /\ MaxFault \in Nat /\ MaxTamper \in Nat

VARIABLES
    \* rows of the database
    status,         \* manifest.status, "none" before the first upsert
    current,        \* manifest.current_artifact_id (its content)
    artState,       \* artifacts.state, "none" where there is no row
    artName,        \* artifacts.local_path (its metadata part)
    intentState,    \* archive_intents.state, "none" where there is no row
    intentReport, intentContent, intentName,
    \* files
    disk,           \* files under the archive root
    temp,           \* attempts whose *.part file is in .tmp
    \* the fetch of each report and its locals
    pc, attempt, content, target, prior, prefetched,
    \* the process and its environment
    nextAttempt,    \* next unused attempt id
    mode,           \* "up", or "recovering" in Store.__init__
    crashes, faults, tampers

intentVars == <<intentState, intentReport, intentContent, intentName>>
rowVars    == <<status, current, artState, artName, intentVars>>
fileVars   == <<disk, temp>>
localVars  == <<attempt, content, target, prior, prefetched>>
envVars    == <<crashes, faults, tampers>>
vars == <<rowVars, fileVars, pc, localVars, nextAttempt, mode, envVars>>

Attempt == 1..MaxAttempt

ManifestStatus == {"none", "discovered", "downloading", "done", "failed"}
ArtifactState  == {"none", "staged", "ready", "unavailable"}
IntentState    == {"none", "registered", "staged", "committed", "failed"}
\* "absent" was never put in place; "bad" and "lost" are external damage.
FileState      == {"absent", "good", "bad", "lost"}
FetchPc        == {"idle", "found", "queued", "registered", "fetched", "staged",
                   "placed", "failing", "closing"}

-----------------------------------------------------------------------------
(* What the rows and the files say.                                        *)

\* The EXISTS(...) of register_download and the COUNT(*) of mark_failed.
CurrentReady(r) ==
    current[r] # NoContent /\ artState[r][current[r]] = "ready"

\* The join of find_cached, archived_periods and the report list.
Served(r) == status[r] = "done" /\ CurrentReady(r)

\* The intents that recovery and mark_failed look for.
IsLive(a) == intentState[a] \in {"registered", "staged"}
Live      == {a \in Attempt : IsLive(a)}
Staged(a) == intentState[a] = "staged"

\* The file named by the artifact row is there and its hash is the row's.
Intact(r, c) == disk[r][c][artName[r][c]] = "good"

\* The file named by a staged intent is there with the expected hash.
TargetGood(a) == disk[intentReport[a]][intentContent[a]][intentName[a]] = "good"

\* Mutant: the upsert overwrites the status of a known report.
UpsertedAnew(r) == IF status[r] = "none" THEN "none" ELSE "discovered"

\* upsert_report inserts a report as "discovered" and keeps a known status.
Upserted(r) == IF status[r] = "none" THEN "discovered" ELSE status[r]

Goto(r, label) == pc' = [pc EXCEPT ![r] = label]

-----------------------------------------------------------------------------
Init ==
    /\ status = [r \in Report |-> "none"]
    /\ current = [r \in Report |-> NoContent]
    /\ artState = [r \in Report |-> [c \in Content |-> "none"]]
    /\ artName = [r \in Report |-> [c \in Content |-> NoName]]
    /\ intentState = [a \in Attempt |-> "none"]
    /\ intentReport = [a \in Attempt |-> NoReport]
    /\ intentContent = [a \in Attempt |-> NoContent]
    /\ intentName = [a \in Attempt |-> NoName]
    /\ disk = [r \in Report |-> [c \in Content |-> [n \in Name |-> "absent"]]]
    /\ temp = {}
    /\ pc = [r \in Report |-> "idle"]
    /\ attempt = [r \in Report |-> 0]
    /\ content = [r \in Report |-> NoContent]
    /\ target = [r \in Report |-> NoName]
    /\ prior = [r \in Report |-> "none"]
    /\ prefetched = [r \in Report |-> FALSE]
    /\ nextAttempt = 1
    /\ mode = "up"
    /\ crashes = 0 /\ faults = 0 /\ tampers = 0

-----------------------------------------------------------------------------
(* The fetch of one report (core.py).  Reports of one batch are downloaded *)
(* by a pool of workers, a report by one worker at a time.                 *)

\* Discovery offers the report; the download attempt it may lead to is known
\* by a fresh id.  Period probing may already have downloaded and verified
\* the file of a report that is not in show (a prefetched temporary file), and
\* upserted the report if the file told its period.
Discover(r) ==
    /\ mode = "up" /\ pc[r] = "idle" /\ nextAttempt <= MaxAttempt
    /\ nextAttempt' = nextAttempt + 1
    /\ attempt' = [attempt EXCEPT ![r] = nextAttempt]
    /\ Goto(r, "found")
    /\ \/ UNCHANGED <<status, content, prefetched, temp>>
       \/ /\ ~Served(r)
          /\ \E c \in Content : content' = [content EXCEPT ![r] = c]
          /\ prefetched' = [prefetched EXCEPT ![r] = TRUE]
          /\ temp' = temp \cup {nextAttempt}
          /\ status' \in {status, [status EXCEPT ![r] = Upserted(r)]}
    /\ UNCHANGED <<current, artState, artName, intentVars, disk, target, prior, mode,
                   envVars>>

\* The selection leaves a probed report out.
LeaveOut(r) ==
    /\ mode = "up" /\ pc[r] = "found" /\ prefetched[r]
    /\ Goto(r, "closing")
    /\ UNCHANGED <<rowVars, fileVars, localVars, nextAttempt, mode, envVars>>

\* A refresh goes on to the download without looking at the cache.
UpsertForRefresh(r) ==
    /\ mode = "up" /\ pc[r] = "found"
    /\ status' = [status EXCEPT ![r] = Upserted(r)]
    /\ Goto(r, "queued")
    /\ UNCHANGED <<current, artState, artName, intentVars, fileVars, localVars,
                   nextAttempt, mode, envVars>>

\* find_cached: a version in show whose file is intact ends the fetch, and
\* without a version in show the file is downloaded.
UpsertAndLookup(r) ==
    /\ mode = "up" /\ pc[r] = "found"
    /\ Served(r) => Intact(r, current[r])
    /\ status' = [status EXCEPT ![r] = Upserted(r)]
    /\ Goto(r, IF Served(r) THEN "closing" ELSE "queued")
    /\ UNCHANGED <<current, artState, artName, intentVars, fileVars, localVars,
                   nextAttempt, mode, envVars>>

\* find_cached on a missing or damaged file: the artifact is unavailable, the
\* report failed only if no other artifact of it is ready.
UpsertAndMarkUnavailable(r) ==
    /\ mode = "up" /\ pc[r] = "found"
    /\ Served(r) /\ ~Intact(r, current[r])
    /\ artState' = [artState EXCEPT ![r][current[r]] = "unavailable"]
    /\ IF \E c \in Content \ {current[r]} : artState[r][c] = "ready"
       THEN UNCHANGED <<status, current>>
       ELSE /\ status' = [status EXCEPT ![r] = "failed"]
            /\ current' = [current EXCEPT ![r] = NoContent]
    /\ Goto(r, "queued")
    /\ UNCHANGED <<artName, intentVars, fileVars, localVars, nextAttempt, mode,
                   envVars>>

\* Mutant: a refresh hides the current version while it runs.
DownloadingStatus(r) == IF status[r] = "none" THEN "none" ELSE "downloading"

\* A report whose current version is ready stays done, any other becomes
\* downloading.
RegisteredStatus(r) ==
    IF status[r] \in {"discovered", "failed", "done"}
    THEN IF CurrentReady(r) THEN "done" ELSE "downloading"
    ELSE status[r]

\* register_download, one transaction: the status, and the intent row.
Register(r, label) ==
    /\ mode = "up" /\ pc[r] = "queued"
    /\ status' = [status EXCEPT ![r] = RegisteredStatus(r)]
    /\ intentState' = [intentState EXCEPT ![attempt[r]] = "registered"]
    /\ intentReport' = [intentReport EXCEPT ![attempt[r]] = r]
    /\ Goto(r, label)
    /\ UNCHANGED <<current, artState, artName, intentContent, intentName, fileVars,
                   localVars, nextAttempt, mode, envVars>>

RegisterDownload(r) ==
    Register(r, IF prefetched[r] THEN "fetched" ELSE "registered")

\* Mutant: the deadline also stops a commit between its two transactions.
SkipOrStop(r) ==
    \/ Register(r, "failing")
    \/ /\ mode = "up" /\ pc[r] = "staged" /\ Goto(r, "failing")
       /\ UNCHANGED <<rowVars, fileVars, localVars, nextAttempt, mode, envVars>>

\* The job deadline has passed: the attempt is registered and failed at once.
SkipAtDeadline(r) == Register(r, "failing")

\* Transport.download: a verified temporary file, complete on disk.
Download(r) ==
    /\ mode = "up" /\ pc[r] = "registered"
    /\ \E c \in Content : content' = [content EXCEPT ![r] = c]
    /\ temp' = temp \cup {attempt[r]}
    /\ Goto(r, "fetched")
    /\ UNCHANGED <<rowVars, disk, attempt, target, prior, prefetched, nextAttempt,
                   mode, envVars>>

\* Mutant: an artifact that is ready stays ready while its path changes.
KeptReady(state) == IF state = "ready" THEN state ELSE "staged"

StagedState(state) == "staged"

\* commit_file, transaction 1: the artifact row of this content is inserted
\* or, whatever its state, taken back to staged under the new path.
Stage(r) ==
    /\ mode = "up" /\ pc[r] = "fetched" /\ attempt[r] \in temp
    /\ prior' = [prior EXCEPT ![r] = artState[r][content[r]]]
    /\ artState' = [artState EXCEPT ![r][content[r]] = StagedState(@)]
    /\ intentState' = [intentState EXCEPT ![attempt[r]] = "staged"]
    /\ intentContent' = [intentContent EXCEPT ![attempt[r]] = content[r]]
    /\ \E n \in Name :
         /\ target' = [target EXCEPT ![r] = n]
         /\ artName' = [artName EXCEPT ![r][content[r]] = n]
         /\ intentName' = [intentName EXCEPT ![attempt[r]] = n]
    /\ Goto(r, "staged")
    /\ UNCHANGED <<status, current, intentReport, fileVars, attempt, content,
                   prefetched, nextAttempt, mode, envVars>>

\* The target exists, is not this content, and belongs to a ready version.
Refused(r) == disk[r][content[r]][target[r]] = "bad" /\ prior[r] = "ready"

\* Mutant: a version in stock is not put in place again.
PlacedIfNew(r) ==
    IF prior[r] = "none" THEN [disk EXCEPT ![r][content[r]][target[r]] = "good"] ELSE disk

PlacedDisk(r) == [disk EXCEPT ![r][content[r]][target[r]] = "good"]

\* The rename; where the target already is this content the temporary file
\* is removed instead.  Either way the target is good and the file is gone.
Place(r) ==
    /\ mode = "up" /\ pc[r] = "staged" /\ ~Refused(r)
    /\ disk' = PlacedDisk(r)
    /\ temp' = temp \ {attempt[r]}
    /\ Goto(r, "placed")
    /\ UNCHANGED <<rowVars, localVars, nextAttempt, mode, envVars>>

RefuseOverwrite(r) ==
    /\ mode = "up" /\ pc[r] = "staged" /\ Refused(r)
    /\ Goto(r, "failing")
    /\ UNCHANGED <<rowVars, fileVars, localVars, nextAttempt, mode, envVars>>

\* _finalize_commit, one transaction, here and in the recovery scan.
Publish(r, c, n, a) ==
    /\ artState' = [artState EXCEPT ![r][c] = "ready"]
    /\ artName' = [artName EXCEPT ![r][c] = n]
    /\ intentState' = [intentState EXCEPT ![a] = "committed"]
    /\ status' = [status EXCEPT ![r] = "done"]
    /\ current' = [current EXCEPT ![r] = c]
    /\ UNCHANGED <<intentReport, intentContent, intentName>>

Finalize(r) ==
    /\ mode = "up" /\ pc[r] = "placed"
    /\ Publish(r, content[r], target[r], attempt[r])
    /\ Goto(r, "closing")
    /\ UNCHANGED <<fileVars, localVars, nextAttempt, mode, envVars>>

\* A step of _run_download raises and leaves no effect of its own.
StepFails(r) ==
    /\ mode = "up" /\ faults < MaxFault
    /\ pc[r] \in {"queued", "registered", "fetched", "staged", "placed"}
    /\ faults' = faults + 1
    /\ Goto(r, "failing")
    /\ UNCHANGED <<rowVars, fileVars, localVars, nextAttempt, mode, crashes, tampers>>

\* The fetch raises before its download stage: the upsert or find_cached, the
\* discovery of a later symbol of the batch, or that of this report, which then
\* has not handed over its prefetched file: the clean-up does not know of it.
Abort(r) ==
    /\ mode = "up" /\ pc[r] \in {"found", "queued"} /\ faults < MaxFault
    /\ faults' = faults + 1
    /\ prefetched' \in {prefetched, [prefetched EXCEPT ![r] = @ /\ pc[r] = "queued"]}
    /\ Goto(r, "closing")
    /\ UNCHANGED <<rowVars, fileVars, attempt, content, target, prior, nextAttempt, mode,
                   crashes, tampers>>

\* mark_failed on a report whose current version is ready: nothing happens,
\* not even to the intent of the attempt that failed.
MarkFailedReturns(r) ==
    /\ mode = "up" /\ pc[r] = "failing" /\ CurrentReady(r)
    /\ Goto(r, "closing")
    /\ UNCHANGED <<rowVars, fileVars, localVars, nextAttempt, mode, envVars>>

\* Mutant: intents are given a state of artifacts.
LostIntents(r) ==
    [a \in Attempt |-> IF intentReport[a] = r /\ IsLive(a)
                       THEN "unavailable" ELSE intentState[a]]

FailedIntents(r) ==
    [a \in Attempt |-> IF intentReport[a] = r /\ IsLive(a)
                       THEN "failed" ELSE intentState[a]]

\* mark_failed otherwise: every unfinished intent of the report fails, and the
\* report with them if it was downloading.
MarkFailed(r) ==
    /\ mode = "up" /\ pc[r] = "failing" /\ ~CurrentReady(r)
    /\ status' = [status EXCEPT ![r] =
                    IF status[r] = "downloading" THEN "failed" ELSE status[r]]
    /\ intentState' = FailedIntents(r)
    /\ Goto(r, "closing")
    /\ UNCHANGED <<current, artState, artName, intentReport, intentContent,
                   intentName, fileVars, localVars, nextAttempt, mode, envVars>>

\* mark_failed itself raises (its callers catch StoreError only).
MarkFailedRaises(r) ==
    /\ mode = "up" /\ pc[r] = "failing" /\ faults < MaxFault
    /\ faults' = faults + 1
    /\ Goto(r, "closing")
    /\ UNCHANGED <<rowVars, fileVars, localVars, nextAttempt, mode, crashes, tampers>>

\* fetch's finally clause: _cleanup_prefetched removes what is left of the
\* prefetched files, whatever has become of their intents.
Close(r) ==
    /\ mode = "up" /\ pc[r] = "closing"
    /\ temp' = IF prefetched[r] THEN temp \ {attempt[r]} ELSE temp
    /\ pc' = [pc EXCEPT ![r] = "idle"]
    /\ attempt' = [attempt EXCEPT ![r] = 0]
    /\ content' = [content EXCEPT ![r] = NoContent]
    /\ target' = [target EXCEPT ![r] = NoName]
    /\ prior' = [prior EXCEPT ![r] = "none"]
    /\ prefetched' = [prefetched EXCEPT ![r] = FALSE]
    /\ UNCHANGED <<rowVars, disk, nextAttempt, mode, envVars>>

FetchStep(r) ==
    \/ Discover(r)          \/ LeaveOut(r)
    \/ UpsertForRefresh(r)  \/ UpsertAndLookup(r) \/ UpsertAndMarkUnavailable(r)
    \/ RegisterDownload(r)  \/ SkipAtDeadline(r)   \/ Download(r)
    \/ Stage(r)             \/ Place(r)            \/ RefuseOverwrite(r)
    \/ Finalize(r)          \/ StepFails(r)        \/ MarkFailedReturns(r)
    \/ MarkFailed(r)        \/ MarkFailedRaises(r) \/ Abort(r)
    \/ Close(r)

-----------------------------------------------------------------------------
(* Process death and Store._recover, which runs before anything else.      *)

\* Rows and files stay, the fetches are gone.  Recovery can die as well.
Crash ==
    /\ crashes < MaxCrash
    /\ crashes' = crashes + 1
    /\ mode' = "recovering"
    /\ pc' = [r \in Report |-> "idle"]
    /\ attempt' = [r \in Report |-> 0]
    /\ content' = [r \in Report |-> NoContent]
    /\ target' = [r \in Report |-> NoName]
    /\ prior' = [r \in Report |-> "none"]
    /\ prefetched' = [r \in Report |-> FALSE]
    /\ UNCHANGED <<rowVars, fileVars, nextAttempt, faults, tampers>>

\* Mutant: recovery only finishes what is already renamed.
RenamedOnly(a) == TargetGood(a)

\* What a staged intent needs to be completed.
Completable(a) == TargetGood(a) \/ a \in temp

\* Mutant: an abandoned report stays downloading.
KeptStatus(r) == status[r]

\* A report that never had a version goes back to discovered.
AbandonedStatus(r) ==
    IF status[r] = "downloading" /\ current[r] = NoContent THEN "discovered" ELSE status[r]

\* Files that an unfinished intent refers to (temp_path is set with staged).
LiveTemps == {a \in temp : Staged(a)}

\* Mutant: the sweep does not wait for the scan.
ScanStarted == Live \subseteq Attempt

ScanDone == Live = {}

\* Mutant: the scan takes the latest intent first.
Latest(a) == a \in Live /\ \A b \in Live : b <= a

\* The scan takes the unfinished intents in the order of their creation; rows
\* of one created_at second come in insertion order.
Oldest(a) == a \in Live /\ \A b \in Live : a <= b

\* The target is in place: only the last transaction is missing.
RecoverFinalize(a) ==
    /\ mode = "recovering" /\ Oldest(a) /\ Staged(a) /\ TargetGood(a)
    /\ Publish(intentReport[a], intentContent[a], intentName[a], a)
    /\ UNCHANGED <<fileVars, pc, localVars, nextAttempt, mode, envVars>>

\* The temporary file is complete: rename it; RecoverFinalize comes next.
RecoverRename(a) ==
    /\ mode = "recovering" /\ Oldest(a) /\ Staged(a) /\ ~TargetGood(a) /\ a \in temp
    /\ disk' = [disk EXCEPT
                  ![intentReport[a]][intentContent[a]][intentName[a]] = "good"]
    /\ temp' = temp \ {a}
    /\ UNCHANGED <<rowVars, pc, localVars, nextAttempt, mode, envVars>>

\* _abandon_intent: the attempt fails.
RecoverAbandon(a) ==
    /\ mode = "recovering" /\ Oldest(a)
    /\ Staged(a) => ~Completable(a)
    /\ intentState' = [intentState EXCEPT ![a] = "failed"]
    /\ status' = [status EXCEPT ![intentReport[a]] = AbandonedStatus(intentReport[a])]
    /\ UNCHANGED <<current, artState, artName, intentReport, intentContent,
                   intentName, fileVars, pc, localVars, nextAttempt, mode, envVars>>

\* _sweep_tmp after the scan: *.part files that no unfinished intent names.
\* Then the store is open.
RecoverSweep ==
    /\ mode = "recovering" /\ ScanDone
    /\ temp' = LiveTemps
    /\ mode' = "up"
    /\ UNCHANGED <<rowVars, disk, pc, localVars, nextAttempt, envVars>>

RecoverStep ==
    \/ \E a \in Attempt : RecoverFinalize(a) \/ RecoverRename(a) \/ RecoverAbandon(a)
    \/ RecoverSweep

\* The environment damages or removes an archived file.
Tamper(r, c, n) ==
    /\ tampers < MaxTamper /\ disk[r][c][n] = "good"
    /\ tampers' = tampers + 1
    /\ \E f \in {"bad", "lost"} : disk' = [disk EXCEPT ![r][c][n] = f]
    /\ UNCHANGED <<rowVars, temp, pc, localVars, nextAttempt, mode, crashes, faults>>

Next ==
    \/ \E r \in Report : FetchStep(r)
    \/ Crash
    \/ RecoverStep
    \/ \E r \in Report, c \in Content, n \in Name : Tamper(r, c, n)

Spec == Init /\ [][Next]_vars

\* Store.__init__ runs the recovery to its end whenever the process is alive.
FairSpec == Spec /\ WF_vars(RecoverStep)

-----------------------------------------------------------------------------
(* Properties.                                                             *)

\* Rows, files and program counters stay within their domains.
TypeOK ==
    /\ status \in [Report -> ManifestStatus]
    /\ current \in [Report -> Content \cup {NoContent}]
    /\ artState \in [Report -> [Content -> ArtifactState]]
    /\ artName \in [Report -> [Content -> Name \cup {NoName}]]
    /\ intentState \in [Attempt -> IntentState]
    /\ intentReport \in [Attempt -> Report \cup {NoReport}]
    /\ intentContent \in [Attempt -> Content \cup {NoContent}]
    /\ intentName \in [Attempt -> Name \cup {NoName}]
    /\ disk \in [Report -> [Content -> [Name -> FileState]]]
    /\ temp \subseteq Attempt
    /\ pc \in [Report -> FetchPc]
    /\ attempt \in [Report -> Attempt \cup {0}]
    /\ content \in [Report -> Content \cup {NoContent}]
    /\ target \in [Report -> Name \cup {NoName}]
    /\ prior \in [Report -> ArtifactState]
    /\ prefetched \in [Report -> BOOLEAN]
    /\ nextAttempt \in 1..(MaxAttempt + 1)
    /\ mode \in {"up", "recovering"}
    /\ crashes \in Nat /\ faults \in Nat /\ tampers \in Nat

\* A row never promises a file that was not put in place: an artifact is
\* ready only under a path its content has been renamed to, so that a missing
\* or different file behind a ready row is always external damage
\* (_finalize_commit runs after the rename, in commit_file and in _recover).
ReadyIsOnDisk ==
    \A r \in Report, c \in Content :
        artState[r][c] = "ready" =>
            /\ artName[r][c] \in Name
            /\ disk[r][c][artName[r][c]] # "absent"

\* The manifest and the artifacts agree on what is served, although they are
\* updated by different transactions: a report with a ready current version
\* is done, whatever fails or is skipped around it, and a done report points
\* at a version that exists.
ManifestAgrees ==
    \A r \in Report :
        /\ CurrentReady(r) => status[r] = "done"
        /\ status[r] = "done" => current[r] # NoContent
        /\ current[r] # NoContent => artState[r][current[r]] # "none"

\* A report that never had a version is not left "downloading" for ever: an
\* unfinished intent of it is there for mark_failed or the next recovery scan
\* to resolve.
DownloadingIsResolvable ==
    \A r \in Report :
        status[r] = "downloading" /\ current[r] = NoContent =>
            \E a \in Live : intentReport[a] = r

\* From the staging transaction until publication, the verified bytes are
\* either still in .tmp or already under the target path: a crash at any of
\* these points loses no completed download.
InFlightRecoverable ==
    \A r \in Report :
        pc[r] \in {"staged", "placed"} =>
            /\ Staged(attempt[r])
            /\ intentReport[attempt[r]] = r
            /\ intentContent[attempt[r]] = content[r]
            /\ intentName[attempt[r]] = target[r]
            /\ \/ attempt[r] \in temp
               \/ disk[r][content[r]][target[r]] # "absent"

\* The same path of the same report, with the same bytes expected there.
SameTarget(a, b) ==
    /\ intentReport[a] = intentReport[b] /\ intentContent[a] = intentContent[b]
    /\ intentName[a] = intentName[b]

\* The recovery scan will publish a: its file is in place, or it or an intent
\* before it has the bytes.
WillComplete(a) ==
    /\ Staged(a)
    /\ TargetGood(a) \/ \E b \in temp : b <= a /\ Staged(b) /\ SameTarget(a, b)

Unfinished(r) == {a \in Live : intentReport[a] = r}

Completing(r) == {a \in Unfinished(r) : WillComplete(a)}

LastOf(S) == {a \in S : \A b \in S : b <= a}

\* What the scan leads to for a report: its version, the versions that can be
\* read, and its status.
Outcome(r) ==
    [version |-> IF Completing(r) = {} THEN {current[r]}
                 ELSE {intentContent[a] : a \in LastOf(Completing(r))},
     readable |-> {c \in Content : artState[r][c] = "ready"}
                    \cup {intentContent[a] : a \in Completing(r)},
     status |-> IF Completing(r) # {} THEN "done"
                ELSE IF Unfinished(r) # {} THEN AbandonedStatus(r) ELSE status[r]]

\* What a restart leads to is settled by what the dead process left behind: each
\* step of the recovery, and each death of it in between, keeps the outcome
\* that the rows and the files imply, with the last attempt that can be completed
\* in show; as _recover promises, running it again changes nothing (store.py:
\* several intents of one report and content share artifact and target path).
RecoveryIsDetermined ==
    [][mode = "recovering" /\ tampers' = tampers =>
         \A r \in Report : Outcome(r)' = Outcome(r)]_vars

\* a is published by this step.
Publishes(a) == intentState[a] # "committed" /\ intentState'[a] = "committed"

\* current_artifact_id only moves forward: an attempt published after a later
\* one does not change which version is current.
InOrderStep ==
    \A a, b \in Attempt :
        Publishes(a) /\ a < b /\ intentState[b] = "committed"
                     /\ intentReport[b] = intentReport[a] =>
            current'[intentReport[a]] = current[intentReport[a]]

CommitsInOrder == [][InOrderStep]_vars

\* The same while nothing but crashes goes wrong.
CrashesKeepOrder == [][faults = 0 /\ tampers = 0 => InOrderStep]_vars

\* A report at rest that has been archived is served: no fetch of it, hit,
\* refreshed, skipped or interrupted, takes a valid version away.
AtRest(r) == mode = "up" /\ pc[r] = "idle"

ArchivedStaysServed ==
    \A r \in Report : tampers = 0 /\ AtRest(r) /\ status[r] = "done" => Served(r)

\* The same while nothing but crashes goes wrong.
CrashesKeepServed == faults = 0 => ArchivedStaysServed

\* A staged download whose bytes are still there is published by recovery.
Recoverable(a) == Staged(a) /\ (a \in temp \/ TargetGood(a))

RecoveryCompletes ==
    \A a \in Attempt :
        mode = "recovering" /\ Recoverable(a) ~>
            intentState[a] = "committed" \/ tampers > 0

-----------------------------------------------------------------------------
(* The archive implements what Archive promises.                           *)

\* Verified bytes the store holds for a report: those of the running fetch
\* and those named by staged intents.
OnHand(r) ==
    ({content[r]} \ {NoContent})
      \cup {intentContent[a] : a \in {b \in Attempt : Staged(b) /\ intentReport[b] = r}}

ShownVersion(r) == IF Served(r) THEN current[r] ELSE NoContent

IsDamaged(r) == Served(r) /\ ~Intact(r, current[r])

A == INSTANCE Archive WITH
       served  <- [r \in Report |-> ShownVersion(r)],
       onHand  <- [r \in Report |-> OnHand(r)],
       damaged <- {r \in Report : IsDamaged(r)}

\* What a request of the HTTP API can tell of an artifact and its file.
FileSeen(r, c) ==
    IF artState[r][c] # "ready" THEN "off" ELSE IF Intact(r, c) THEN "good" ELSE "bad"

View == INSTANCE ArchiveView WITH
          file <- [r \in Report |-> [c \in Content |-> FileSeen(r, c)]],
          up   <- mode = "up"

\* Withdrawal needs damage or a repeated delivery, only a verified delivery of
\* the same report is ever shown, and no version but a redelivered or a
\* written-off one loses its artifact.  Every step of the downloads, of crashes
\* and of the recovery scan is a step of Archive and of ArchiveView or leaves
\* them alone.
ImplementsArchive == A!Spec /\ View!Spec
=============================================================================
