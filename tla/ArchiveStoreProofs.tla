------------------------- MODULE ArchiveStoreProofs -------------------------
(***************************************************************************)
(* Proofs about ArchiveStore, for every set of reports, contents and names *)
(* and every value of the bounds.                                          *)
(***************************************************************************)
EXTENDS ArchiveStore, TLAPS

-----------------------------------------------------------------------------
(* The inductive invariant.                                                *)

\* What each stage of a fetch has already established.  No two fetches own
\* the same attempt, and no fetch runs during recovery.
FetchInv ==
    /\ mode = "recovering" => \A r \in Report : pc[r] = "idle"
    /\ \A r \in Report :
         /\ pc[r] # "idle" => attempt[r] \in Attempt /\ attempt[r] < nextAttempt
         /\ pc[r] = "idle" => ~prefetched[r]
         /\ pc[r] \in {"found", "queued"} => ~IsLive(attempt[r])
         /\ pc[r] = "registered" => ~prefetched[r]
         /\ pc[r] \in {"idle", "found", "queued", "registered"} /\ ~prefetched[r] =>
              content[r] = NoContent
         /\ pc[r] \in {"registered", "fetched", "staged", "placed"} =>
              intentReport[attempt[r]] = r
         /\ pc[r] \in {"registered", "fetched"} =>
              intentState[attempt[r]] = "registered"
         /\ prefetched[r] \/ pc[r] \in {"fetched", "staged", "placed"} =>
              content[r] \in Content
         /\ pc[r] \in {"staged", "placed"} =>
              /\ Staged(attempt[r]) /\ target[r] \in Name
              /\ intentContent[attempt[r]] = content[r]
              /\ intentName[attempt[r]] = target[r]
              /\ artState[r][content[r]] = "staged"
         /\ pc[r] = "staged" => attempt[r] \in temp
         /\ pc[r] = "placed" => disk[r][content[r]][target[r]] # "absent"
    /\ \A r, s \in Report :
         r # s /\ pc[r] # "idle" /\ pc[s] # "idle" => attempt[r] # attempt[s]

\* An unfinished intent names what recovery needs; an attempt that has not
\* been given out has none.
IntentInv ==
    \A a \in Attempt :
        /\ IsLive(a) => intentReport[a] \in Report
        /\ Staged(a) => intentContent[a] \in Content /\ intentName[a] \in Name
        /\ a >= nextAttempt => ~IsLive(a)

IInv == /\ TypeOK /\ FetchInv /\ IntentInv
        /\ ReadyIsOnDisk /\ ManifestAgrees /\ DownloadingIsResolvable

\* Steps of a fetch that change nothing but its program counter.
ControlStep(r) ==
    \/ RefuseOverwrite(r) \/ StepFails(r) \/ MarkFailedReturns(r)
    \/ MarkFailedRaises(r) \/ LeaveOut(r)

-----------------------------------------------------------------------------
(* Each part of the invariant holds initially and is kept by every step.   *)

LEMMA ControlStepOnly ==
  ASSUME NEW r \in Report, ControlStep(r), faults \in Nat
  PROVE  /\ pc[r] # "idle" /\ mode = "up"
         /\ \E label \in {"failing", "closing"} : pc' = [pc EXCEPT ![r] = label]
         /\ faults' \in Nat
         /\ UNCHANGED <<rowVars, fileVars, localVars, nextAttempt, mode, crashes, tampers>>
  BY DEF ControlStep, RefuseOverwrite, StepFails, MarkFailedReturns, MarkFailedRaises,
         LeaveOut, Goto, envVars

LEMMA InitIInv == Init => IInv
  BY ArchiveAssumption
  DEF ArchiveAssumption, Init, IInv, TypeOK, FetchInv, IntentInv, ReadyIsOnDisk,
      ManifestAgrees, DownloadingIsResolvable, CurrentReady, Live, IsLive, Staged,
      Attempt, ManifestStatus, ArtifactState, IntentState, FileState, FetchPc

\* Domains: the stage of a fetch says which of its locals are set.
LEMMA TypeOKPreserved ==
  ASSUME IInv, [Next]_vars
  PROVE  TypeOK'
  <1> USE ArchiveAssumption DEF ArchiveAssumption, IInv, FetchInv, IntentInv
  <1> USE DEF TypeOK, Attempt, ManifestStatus, ArtifactState, IntentState, FileState,
              FetchPc, rowVars, intentVars, fileVars, localVars, envVars, Goto,
              IsLive, Staged
  <1>1. ASSUME NEW r \in Report, FetchStep(r)
        PROVE  TypeOK'
    <2>1. CASE Discover(r)
      <3> HIDE DEF FetchInv, IntentInv
      <3> USE <2>1 DEF Discover
      <3>1. nextAttempt \in Attempt /\ nextAttempt' \in 1..(MaxAttempt + 1)
        OBVIOUS
      <3>2. temp' = temp \/ temp' = temp \cup {nextAttempt}
        OBVIOUS
      <3>3. content' \in [Report -> Content \cup {NoContent}]
        OBVIOUS
      <3>4. prefetched' \in [Report -> BOOLEAN]
        OBVIOUS
      <3>5. status' \in [Report -> ManifestStatus]
        BY DEF Upserted
      <3> QED
        BY <3>1, <3>2, <3>3, <3>4, <3>5
    <2>2. CASE UpsertForRefresh(r)
      BY <2>2 DEF UpsertForRefresh, Upserted
    <2>3. CASE UpsertAndLookup(r)
      BY <2>3 DEF UpsertAndLookup, Upserted
    <2>4. CASE UpsertAndMarkUnavailable(r)
      BY <2>4 DEF UpsertAndMarkUnavailable, Served, CurrentReady
    <2>5. ASSUME NEW label \in {"fetched", "registered", "failing"},
                 Register(r, label), label = "fetched" => prefetched[r],
                 label = "registered" => ~prefetched[r]
          PROVE  TypeOK'
      BY <2>5 DEF Register, RegisteredStatus, CurrentReady
    <2>6. CASE RegisterDownload(r) \/ SkipAtDeadline(r)
      BY <2>5, <2>6 DEF RegisterDownload, SkipAtDeadline
    <2>7. CASE Download(r)
      <3>1. attempt[r] \in Attempt
        BY <2>7 DEF Download
      <3>2. temp' \subseteq Attempt
        BY <2>7, <3>1 DEF Download
      <3>3. content' \in [Report -> Content \cup {NoContent}]
        BY <2>7 DEF Download
      <3> QED
        BY <2>7, <3>2, <3>3 DEF Download
    <2>8. CASE Stage(r)
      <3>1. PICK n \in Name :
               /\ target' = [target EXCEPT ![r] = n]
               /\ artName' = [artName EXCEPT ![r][content[r]] = n]
               /\ intentName' = [intentName EXCEPT ![attempt[r]] = n]
        BY <2>8 DEF Stage, StagedState
      <3>2. prior' \in [Report -> ArtifactState]
        BY <2>8 DEF Stage, StagedState
      <3> QED
        BY <2>8, <3>1, <3>2 DEF Stage, StagedState
    <2>9. CASE Place(r)
      <3>1. content[r] \in Content /\ target[r] \in Name
        BY <2>9 DEF Place, PlacedDisk
      <3> HIDE DEF FetchInv, IntentInv
      <3>2. disk' \in [Report -> [Content -> [Name -> FileState]]]
        BY <2>9, <3>1 DEF Place, PlacedDisk
      <3> QED
        BY <2>9, <3>2 DEF Place, PlacedDisk
    <2>10. CASE Finalize(r)
      BY <2>10 DEF Finalize, Publish
    <2>11. CASE ControlStep(r)
      <3>1. /\ pc[r] # "idle" /\ mode = "up" /\ faults' \in Nat
            /\ UNCHANGED <<rowVars, fileVars, localVars, nextAttempt, mode, crashes,
                           tampers>>
        BY <2>11, ControlStepOnly
      <3>2. PICK label \in {"failing", "closing"} : pc' = [pc EXCEPT ![r] = label]
        BY <2>11, ControlStepOnly
      <3> QED
        BY <3>1, <3>2
    <2>12. CASE MarkFailed(r)
      BY <2>12 DEF MarkFailed, FailedIntents
    <2>13. CASE Close(r)
      BY <2>13 DEF Close
    <2>14. CASE Abort(r)
      <3> HIDE DEF FetchInv, IntentInv
      <3>1. prefetched' \in [Report -> BOOLEAN]
        <4>1. [prefetched EXCEPT ![r] = @ /\ pc[r] = "queued"] \in [Report -> BOOLEAN]
          OBVIOUS
        <4> QED
          BY <2>14, <4>1 DEF Abort
      <3>2. /\ pc' = [pc EXCEPT ![r] = "closing"] /\ faults' = faults + 1
            /\ UNCHANGED <<rowVars, fileVars, attempt, content, target, prior,
                           nextAttempt, mode, crashes, tampers>>
        BY <2>14 DEF Abort
      <3> QED
        BY <3>1, <3>2
    <2> QED
      BY <1>1, <2>1, <2>2, <2>3, <2>4, <2>6, <2>7, <2>8, <2>9, <2>10, <2>11,
         <2>12, <2>13, <2>14
         DEF FetchStep, ControlStep
  <1>2. CASE Crash
    BY <1>2 DEF Crash
  <1>3. ASSUME NEW a \in Attempt, RecoverFinalize(a)
        PROVE  TypeOK'
    BY <1>3 DEF RecoverFinalize, Publish, Oldest, Live, TargetGood
  <1>4. ASSUME NEW a \in Attempt, RecoverRename(a)
        PROVE  TypeOK'
    BY <1>4 DEF RecoverRename, Oldest, Live
  <1>5. ASSUME NEW a \in Attempt, RecoverAbandon(a)
        PROVE  TypeOK'
    BY <1>5 DEF RecoverAbandon, Completable, AbandonedStatus, Oldest, Live
  <1>6. CASE RecoverSweep
    BY <1>6 DEF RecoverSweep, LiveTemps, ScanDone
  <1>7. ASSUME NEW r \in Report, NEW c \in Content, NEW n \in Name, Tamper(r, c, n)
        PROVE  TypeOK'
    BY <1>7 DEF Tamper
  <1>8. CASE UNCHANGED vars
    BY <1>8 DEF vars
  <1> QED
    BY <1>1, <1>2, <1>3, <1>4, <1>5, <1>6, <1>7, <1>8 DEF Next, RecoverStep

\* Each stage leaves behind what the next one relies on.
LEMMA FetchInvPreserved ==
  ASSUME IInv, [Next]_vars
  PROVE  FetchInv'
  <1> USE ArchiveAssumption DEF ArchiveAssumption, IInv, FetchInv, IntentInv
  <1> USE DEF TypeOK, Attempt, ManifestStatus, ArtifactState, IntentState, FileState,
              FetchPc, rowVars, intentVars, fileVars, localVars, envVars, Goto,
              IsLive, Staged
  <1>1. ASSUME NEW r \in Report, FetchStep(r)
        PROVE  FetchInv'
    <2>1. CASE Discover(r)
      BY <2>1 DEF Discover, Upserted
    <2>2. CASE UpsertForRefresh(r)
      BY <2>2 DEF UpsertForRefresh, Upserted
    <2>3. CASE UpsertAndLookup(r)
      BY <2>3 DEF UpsertAndLookup, Upserted
    <2>4. CASE UpsertAndMarkUnavailable(r)
      BY <2>4 DEF UpsertAndMarkUnavailable, Served, CurrentReady
    <2>5. ASSUME NEW label \in {"fetched", "registered", "failing"},
                 Register(r, label), label = "fetched" => prefetched[r],
                 label = "registered" => ~prefetched[r]
          PROVE  FetchInv'
      BY <2>5 DEF Register, RegisteredStatus, CurrentReady
    <2>6. CASE RegisterDownload(r) \/ SkipAtDeadline(r)
      BY <2>5, <2>6 DEF RegisterDownload, SkipAtDeadline
    <2>7. CASE Download(r)
      BY <2>7 DEF Download
    <2>8. CASE Stage(r)
      BY <2>8 DEF Stage, StagedState
    <2>9. CASE Place(r)
      <3> USE <2>9 DEF Place, PlacedDisk
      <3>1. /\ disk'[r][content[r]][target[r]] = "good"
            /\ \A s \in Report : s # r => disk'[s] = disk[s]
        OBVIOUS
      <3>2. \A s \in Report : s # r /\ pc[s] # "idle" => attempt[s] # attempt[r]
        OBVIOUS
      <3> QED
        BY <3>1, <3>2, SMTT(30)
    <2>10. CASE Finalize(r)
      BY <2>10 DEF Finalize, Publish
    <2>11. CASE ControlStep(r)
      <3>1. /\ pc[r] # "idle" /\ mode = "up" /\ faults' \in Nat
            /\ UNCHANGED <<rowVars, fileVars, localVars, nextAttempt, mode, crashes,
                           tampers>>
        BY <2>11, ControlStepOnly
      <3>2. PICK label \in {"failing", "closing"} : pc' = [pc EXCEPT ![r] = label]
        BY <2>11, ControlStepOnly
      <3> QED
        BY <3>1, <3>2
    <2>12. CASE MarkFailed(r)
      BY <2>12 DEF MarkFailed, FailedIntents
    <2>13. CASE Close(r)
      BY <2>13 DEF Close
    <2>14. CASE Abort(r)
      BY <2>14 DEF Abort
    <2> QED
      BY <1>1, <2>1, <2>2, <2>3, <2>4, <2>6, <2>7, <2>8, <2>9, <2>10, <2>11,
         <2>12, <2>13, <2>14
         DEF FetchStep, ControlStep
  <1>2. CASE Crash
    BY <1>2 DEF Crash
  <1>3. ASSUME NEW a \in Attempt, RecoverFinalize(a)
        PROVE  FetchInv'
    BY <1>3 DEF RecoverFinalize, Publish, Oldest, Live, TargetGood
  <1>4. ASSUME NEW a \in Attempt, RecoverRename(a)
        PROVE  FetchInv'
    BY <1>4 DEF RecoverRename, Oldest, Live
  <1>5. ASSUME NEW a \in Attempt, RecoverAbandon(a)
        PROVE  FetchInv'
    BY <1>5 DEF RecoverAbandon, Completable, AbandonedStatus, Oldest, Live
  <1>6. CASE RecoverSweep
    BY <1>6 DEF RecoverSweep, LiveTemps, ScanDone
  <1>7. ASSUME NEW r \in Report, NEW c \in Content, NEW n \in Name, Tamper(r, c, n)
        PROVE  FetchInv'
    BY <1>7 DEF Tamper
  <1>8. CASE UNCHANGED vars
    BY <1>8 DEF vars
  <1> QED
    BY <1>1, <1>2, <1>3, <1>4, <1>5, <1>6, <1>7, <1>8 DEF Next, RecoverStep

\* Unfinished intents stay usable by recovery.
LEMMA IntentInvPreserved ==
  ASSUME IInv, [Next]_vars
  PROVE  IntentInv'
  <1> USE ArchiveAssumption DEF ArchiveAssumption, IInv, FetchInv, IntentInv
  <1> USE DEF TypeOK, Attempt, ManifestStatus, ArtifactState, IntentState, FileState,
              FetchPc, rowVars, intentVars, fileVars, localVars, envVars, Goto,
              IsLive, Staged
  <1>1. ASSUME NEW r \in Report, FetchStep(r)
        PROVE  IntentInv'
    <2>1. CASE Discover(r)
      BY <2>1 DEF Discover, Upserted
    <2>2. CASE UpsertForRefresh(r)
      BY <2>2 DEF UpsertForRefresh, Upserted
    <2>3. CASE UpsertAndLookup(r)
      BY <2>3 DEF UpsertAndLookup, Upserted
    <2>4. CASE UpsertAndMarkUnavailable(r)
      BY <2>4 DEF UpsertAndMarkUnavailable, Served, CurrentReady
    <2>5. ASSUME NEW label \in {"fetched", "registered", "failing"},
                 Register(r, label), label = "fetched" => prefetched[r],
                 label = "registered" => ~prefetched[r]
          PROVE  IntentInv'
      BY <2>5 DEF Register, RegisteredStatus, CurrentReady
    <2>6. CASE RegisterDownload(r) \/ SkipAtDeadline(r)
      BY <2>5, <2>6 DEF RegisterDownload, SkipAtDeadline
    <2>7. CASE Download(r)
      BY <2>7 DEF Download
    <2>8. CASE Stage(r)
      BY <2>8 DEF Stage, StagedState
    <2>9. CASE Place(r)
      BY <2>9 DEF Place, PlacedDisk
    <2>10. CASE Finalize(r)
      BY <2>10 DEF Finalize, Publish
    <2>11. CASE ControlStep(r)
      <3>1. /\ pc[r] # "idle" /\ mode = "up" /\ faults' \in Nat
            /\ UNCHANGED <<rowVars, fileVars, localVars, nextAttempt, mode, crashes,
                           tampers>>
        BY <2>11, ControlStepOnly
      <3>2. PICK label \in {"failing", "closing"} : pc' = [pc EXCEPT ![r] = label]
        BY <2>11, ControlStepOnly
      <3> QED
        BY <3>1, <3>2
    <2>12. CASE MarkFailed(r)
      BY <2>12 DEF MarkFailed, FailedIntents
    <2>13. CASE Close(r)
      BY <2>13 DEF Close
    <2>14. CASE Abort(r)
      BY <2>14 DEF Abort
    <2> QED
      BY <1>1, <2>1, <2>2, <2>3, <2>4, <2>6, <2>7, <2>8, <2>9, <2>10, <2>11,
         <2>12, <2>13, <2>14
         DEF FetchStep, ControlStep
  <1>2. CASE Crash
    BY <1>2 DEF Crash
  <1>3. ASSUME NEW a \in Attempt, RecoverFinalize(a)
        PROVE  IntentInv'
    BY <1>3 DEF RecoverFinalize, Publish, Oldest, Live, TargetGood
  <1>4. ASSUME NEW a \in Attempt, RecoverRename(a)
        PROVE  IntentInv'
    BY <1>4 DEF RecoverRename, Oldest, Live
  <1>5. ASSUME NEW a \in Attempt, RecoverAbandon(a)
        PROVE  IntentInv'
    BY <1>5 DEF RecoverAbandon, Completable, AbandonedStatus, Oldest, Live
  <1>6. CASE RecoverSweep
    BY <1>6 DEF RecoverSweep, LiveTemps, ScanDone
  <1>7. ASSUME NEW r \in Report, NEW c \in Content, NEW n \in Name, Tamper(r, c, n)
        PROVE  IntentInv'
    BY <1>7 DEF Tamper
  <1>8. CASE UNCHANGED vars
    BY <1>8 DEF vars
  <1> QED
    BY <1>1, <1>2, <1>3, <1>4, <1>5, <1>6, <1>7, <1>8 DEF Next, RecoverStep

\* Only Finalize and RecoverFinalize make an artifact ready, both over a file in
\* place; Stage moves a row to another path but takes it out of ready first.
LEMMA ReadyIsOnDiskPreserved ==
  ASSUME IInv, [Next]_vars
  PROVE  ReadyIsOnDisk'
  <1> USE ArchiveAssumption DEF ArchiveAssumption, IInv, FetchInv, IntentInv, ReadyIsOnDisk
  <1> USE DEF TypeOK, Attempt, ManifestStatus, ArtifactState, IntentState, FileState,
              FetchPc, rowVars, intentVars, fileVars, localVars, envVars, Goto,
              IsLive, Staged
  <1>1. ASSUME NEW r \in Report, FetchStep(r)
        PROVE  ReadyIsOnDisk'
    <2>1. CASE Discover(r)
      BY <2>1 DEF Discover, Upserted
    <2>2. CASE UpsertForRefresh(r)
      BY <2>2 DEF UpsertForRefresh, Upserted
    <2>3. CASE UpsertAndLookup(r)
      BY <2>3 DEF UpsertAndLookup, Upserted
    <2>4. CASE UpsertAndMarkUnavailable(r)
      BY <2>4 DEF UpsertAndMarkUnavailable, Served, CurrentReady
    <2>5. ASSUME NEW label \in {"fetched", "registered", "failing"},
                 Register(r, label), label = "fetched" => prefetched[r],
                 label = "registered" => ~prefetched[r]
          PROVE  ReadyIsOnDisk'
      BY <2>5 DEF Register, RegisteredStatus, CurrentReady
    <2>6. CASE RegisterDownload(r) \/ SkipAtDeadline(r)
      BY <2>5, <2>6 DEF RegisterDownload, SkipAtDeadline
    <2>7. CASE Download(r)
      BY <2>7 DEF Download
    <2>8. CASE Stage(r)
      BY <2>8 DEF Stage, StagedState
    <2>9. CASE Place(r)
      BY <2>9 DEF Place, PlacedDisk
    <2>10. CASE Finalize(r)
      BY <2>10 DEF Finalize, Publish
    <2>11. CASE ControlStep(r)
      <3>1. /\ pc[r] # "idle" /\ mode = "up" /\ faults' \in Nat
            /\ UNCHANGED <<rowVars, fileVars, localVars, nextAttempt, mode, crashes,
                           tampers>>
        BY <2>11, ControlStepOnly
      <3>2. PICK label \in {"failing", "closing"} : pc' = [pc EXCEPT ![r] = label]
        BY <2>11, ControlStepOnly
      <3> QED
        BY <3>1, <3>2
    <2>12. CASE MarkFailed(r)
      BY <2>12 DEF MarkFailed, FailedIntents
    <2>13. CASE Close(r)
      BY <2>13 DEF Close
    <2>14. CASE Abort(r)
      BY <2>14 DEF Abort
    <2> QED
      BY <1>1, <2>1, <2>2, <2>3, <2>4, <2>6, <2>7, <2>8, <2>9, <2>10, <2>11,
         <2>12, <2>13, <2>14
         DEF FetchStep, ControlStep
  <1>2. CASE Crash
    BY <1>2 DEF Crash
  <1>3. ASSUME NEW a \in Attempt, RecoverFinalize(a)
        PROVE  ReadyIsOnDisk'
    BY <1>3 DEF RecoverFinalize, Publish, Oldest, Live, TargetGood
  <1>4. ASSUME NEW a \in Attempt, RecoverRename(a)
        PROVE  ReadyIsOnDisk'
    BY <1>4 DEF RecoverRename, Oldest, Live
  <1>5. ASSUME NEW a \in Attempt, RecoverAbandon(a)
        PROVE  ReadyIsOnDisk'
    BY <1>5 DEF RecoverAbandon, Completable, AbandonedStatus, Oldest, Live
  <1>6. CASE RecoverSweep
    BY <1>6 DEF RecoverSweep, LiveTemps, ScanDone
  <1>7. ASSUME NEW r \in Report, NEW c \in Content, NEW n \in Name, Tamper(r, c, n)
        PROVE  ReadyIsOnDisk'
    BY <1>7 DEF Tamper
  <1>8. CASE UNCHANGED vars
    BY <1>8 DEF vars
  <1> QED
    BY <1>1, <1>2, <1>3, <1>4, <1>5, <1>6, <1>7, <1>8 DEF Next, RecoverStep

\* The status of a report with a ready version is rewritten as done by every
\* step that touches it.
LEMMA ManifestAgreesPreserved ==
  ASSUME IInv, [Next]_vars
  PROVE  ManifestAgrees'
  <1> USE ArchiveAssumption DEF ArchiveAssumption, IInv, FetchInv, IntentInv, ManifestAgrees, CurrentReady,
              Served, Intact
  <1> USE DEF TypeOK, Attempt, ManifestStatus, ArtifactState, IntentState, FileState,
              FetchPc, rowVars, intentVars, fileVars, localVars, envVars, Goto,
              IsLive, Staged
  <1>1. ASSUME NEW r \in Report, FetchStep(r)
        PROVE  ManifestAgrees'
    <2>1. CASE Discover(r)
      BY <2>1 DEF Discover, Upserted
    <2>2. CASE UpsertForRefresh(r)
      BY <2>2 DEF UpsertForRefresh, Upserted
    <2>3. CASE UpsertAndLookup(r)
      BY <2>3 DEF UpsertAndLookup, Upserted
    <2>4. CASE UpsertAndMarkUnavailable(r)
      BY <2>4 DEF UpsertAndMarkUnavailable, Served, CurrentReady
    <2>5. ASSUME NEW label \in {"fetched", "registered", "failing"},
                 Register(r, label), label = "fetched" => prefetched[r],
                 label = "registered" => ~prefetched[r]
          PROVE  ManifestAgrees'
      BY <2>5 DEF Register, RegisteredStatus, CurrentReady
    <2>6. CASE RegisterDownload(r) \/ SkipAtDeadline(r)
      BY <2>5, <2>6 DEF RegisterDownload, SkipAtDeadline
    <2>7. CASE Download(r)
      BY <2>7 DEF Download
    <2>8. CASE Stage(r)
      BY <2>8 DEF Stage, StagedState
    <2>9. CASE Place(r)
      BY <2>9 DEF Place, PlacedDisk
    <2>10. CASE Finalize(r)
      BY <2>10 DEF Finalize, Publish
    <2>11. CASE ControlStep(r)
      <3>1. /\ pc[r] # "idle" /\ mode = "up" /\ faults' \in Nat
            /\ UNCHANGED <<rowVars, fileVars, localVars, nextAttempt, mode, crashes,
                           tampers>>
        BY <2>11, ControlStepOnly
      <3>2. PICK label \in {"failing", "closing"} : pc' = [pc EXCEPT ![r] = label]
        BY <2>11, ControlStepOnly
      <3> QED
        BY <3>1, <3>2
    <2>12. CASE MarkFailed(r)
      BY <2>12 DEF MarkFailed, FailedIntents
    <2>13. CASE Close(r)
      BY <2>13 DEF Close
    <2>14. CASE Abort(r)
      BY <2>14 DEF Abort
    <2> QED
      BY <1>1, <2>1, <2>2, <2>3, <2>4, <2>6, <2>7, <2>8, <2>9, <2>10, <2>11,
         <2>12, <2>13, <2>14
         DEF FetchStep, ControlStep
  <1>2. CASE Crash
    BY <1>2 DEF Crash
  <1>3. ASSUME NEW a \in Attempt, RecoverFinalize(a)
        PROVE  ManifestAgrees'
    BY <1>3 DEF RecoverFinalize, Publish, Oldest, Live, TargetGood
  <1>4. ASSUME NEW a \in Attempt, RecoverRename(a)
        PROVE  ManifestAgrees'
    BY <1>4 DEF RecoverRename, Oldest, Live
  <1>5. ASSUME NEW a \in Attempt, RecoverAbandon(a)
        PROVE  ManifestAgrees'
    BY <1>5 DEF RecoverAbandon, Completable, AbandonedStatus, Oldest, Live
  <1>6. CASE RecoverSweep
    BY <1>6 DEF RecoverSweep, LiveTemps, ScanDone
  <1>7. ASSUME NEW r \in Report, NEW c \in Content, NEW n \in Name, Tamper(r, c, n)
        PROVE  ManifestAgrees'
    BY <1>7 DEF Tamper
  <1>8. CASE UNCHANGED vars
    BY <1>8 DEF vars
  <1> QED
    BY <1>1, <1>2, <1>3, <1>4, <1>5, <1>6, <1>7, <1>8 DEF Next, RecoverStep

\* Whatever fails the last unfinished intent of a report takes the report out of
\* downloading.
LEMMA DownloadingIsResolvablePreserved ==
  ASSUME IInv, [Next]_vars
  PROVE  DownloadingIsResolvable'
  <1> USE ArchiveAssumption DEF ArchiveAssumption, IInv, FetchInv, IntentInv, ManifestAgrees,
              CurrentReady, Live, Served, DownloadingIsResolvable
  <1> USE DEF TypeOK, Attempt, ManifestStatus, ArtifactState, IntentState, FileState,
              FetchPc, rowVars, intentVars, fileVars, localVars, envVars, Goto,
              IsLive, Staged
  <1>1. ASSUME NEW r \in Report, FetchStep(r)
        PROVE  DownloadingIsResolvable'
    <2>1. CASE Discover(r)
      <3>1. UNCHANGED <<intentVars, current>>
        BY <2>1 DEF Discover
      <3>2. \A s \in Report : status'[s] = "downloading" => status[s] = "downloading"
        BY <2>1 DEF Discover, Upserted
      <3> QED
        BY <3>1, <3>2
    <2>2. CASE UpsertForRefresh(r)
      BY <2>2 DEF UpsertForRefresh, Upserted
    <2>3. CASE UpsertAndLookup(r)
      BY <2>3 DEF UpsertAndLookup, Upserted
    <2>4. CASE UpsertAndMarkUnavailable(r)
      BY <2>4 DEF UpsertAndMarkUnavailable, Served, CurrentReady
    <2>5. ASSUME NEW label \in {"fetched", "registered", "failing"},
                 Register(r, label), label = "fetched" => prefetched[r],
                 label = "registered" => ~prefetched[r]
          PROVE  DownloadingIsResolvable'
      BY <2>5 DEF Register, RegisteredStatus, CurrentReady
    <2>6. CASE RegisterDownload(r) \/ SkipAtDeadline(r)
      BY <2>5, <2>6 DEF RegisterDownload, SkipAtDeadline
    <2>7. CASE Download(r)
      BY <2>7 DEF Download
    <2>8. CASE Stage(r)
      BY <2>8 DEF Stage, StagedState
    <2>9. CASE Place(r)
      BY <2>9 DEF Place, PlacedDisk
    <2>10. CASE Finalize(r)
      BY <2>10 DEF Finalize, Publish
    <2>11. CASE ControlStep(r)
      <3>1. /\ pc[r] # "idle" /\ mode = "up" /\ faults' \in Nat
            /\ UNCHANGED <<rowVars, fileVars, localVars, nextAttempt, mode, crashes,
                           tampers>>
        BY <2>11, ControlStepOnly
      <3>2. PICK label \in {"failing", "closing"} : pc' = [pc EXCEPT ![r] = label]
        BY <2>11, ControlStepOnly
      <3> QED
        BY <3>1, <3>2
    <2>12. CASE MarkFailed(r)
      BY <2>12 DEF MarkFailed, FailedIntents
    <2>13. CASE Close(r)
      BY <2>13 DEF Close
    <2>14. CASE Abort(r)
      BY <2>14 DEF Abort
    <2> QED
      BY <1>1, <2>1, <2>2, <2>3, <2>4, <2>6, <2>7, <2>8, <2>9, <2>10, <2>11,
         <2>12, <2>13, <2>14
         DEF FetchStep, ControlStep
  <1>2. CASE Crash
    BY <1>2 DEF Crash
  <1>3. ASSUME NEW a \in Attempt, RecoverFinalize(a)
        PROVE  DownloadingIsResolvable'
    BY <1>3 DEF RecoverFinalize, Publish, Oldest, Live, TargetGood
  <1>4. ASSUME NEW a \in Attempt, RecoverRename(a)
        PROVE  DownloadingIsResolvable'
    BY <1>4 DEF RecoverRename, Oldest, Live
  <1>5. ASSUME NEW a \in Attempt, RecoverAbandon(a)
        PROVE  DownloadingIsResolvable'
    BY <1>5 DEF RecoverAbandon, Completable, AbandonedStatus, Oldest, Live
  <1>6. CASE RecoverSweep
    BY <1>6 DEF RecoverSweep, LiveTemps, ScanDone
  <1>7. ASSUME NEW r \in Report, NEW c \in Content, NEW n \in Name, Tamper(r, c, n)
        PROVE  DownloadingIsResolvable'
    BY <1>7 DEF Tamper
  <1>8. CASE UNCHANGED vars
    BY <1>8 DEF vars
  <1> QED
    BY <1>1, <1>2, <1>3, <1>4, <1>5, <1>6, <1>7, <1>8 DEF Next, RecoverStep

-----------------------------------------------------------------------------
(* A second layer: what holds while nothing but crashes goes wrong.  It is *)
(* proved over IInv, which every step is already known to keep.            *)

\* No step has raised and no file was damaged from outside.
Calm == faults = 0 /\ tampers = 0

\* Attempts are given out in turn: an attempt not yet given out belongs to no
\* report, and a report has no attempt later than the one it is fetched by.
TurnInv ==
    /\ \A a \in Attempt : a >= nextAttempt => intentReport[a] = NoReport
    /\ \A r \in Report, b \in Attempt :
         pc[r] # "idle" /\ b > attempt[r] => intentReport[b] # r

\* No archived file is missing or different.
NoDamage ==
    \A r \in Report, c \in Content, n \in Name : disk[r][c][n] \in {"absent", "good"}

\* Recovery can complete every staged intent.
StagedCompletable == \A a \in Attempt : Staged(a) => Completable(a)

\* The fetch that owns an attempt between staging and publication.
Owns(r, a) == pc[r] \in {"staged", "placed"} /\ attempt[r] = a

\* While the store is open every staged intent is some fetch's.
StagedOwned ==
    mode = "up" => \A a \in Attempt : Staged(a) => \E r \in Report : Owns(r, a)

\* The version of a done report is hidden only by a staged intent that will
\* show it again.
HiddenIsStaged ==
    \A r \in Report : status[r] = "done" /\ ~CurrentReady(r) =>
        \E a \in Attempt : Staged(a) /\ intentReport[a] = r

\* No later attempt of the same report was published before a staged one.
NoneOvertaken ==
    \A a, b \in Attempt : a < b /\ Staged(a) /\ intentState[b] = "committed" =>
        intentReport[a] # intentReport[b]

Kept == NoDamage /\ StagedCompletable /\ StagedOwned /\ HiddenIsStaged /\ NoneOvertaken

CalmInv == TurnInv /\ (Calm => Kept)

\* Steps after which the same intents are staged.
QuietStep(r) ==
    \/ Discover(r)   \/ LeaveOut(r)         \/ UpsertForRefresh(r) \/ UpsertAndLookup(r)
    \/ Download(r)   \/ RegisterDownload(r) \/ SkipAtDeadline(r)
    \/ MarkFailed(r) \/ MarkFailedReturns(r) \/ Close(r)

\* A staged intent is owned by the fetch of the report it names, so a report
\* whose fetch is elsewhere has none.
LEMMA OwnerIsReport ==
  ASSUME IInv, StagedOwned, mode = "up", NEW a \in Attempt, Staged(a)
  PROVE  intentReport[a] \in Report /\ Owns(intentReport[a], a)
  <1>1. PICK s \in Report : Owns(s, a)
    BY DEF StagedOwned
  <1>2. intentReport[a] = s
    BY <1>1 DEF IInv, FetchInv, Owns
  <1> QED
    BY <1>1, <1>2

\* The steps that are left when nothing goes wrong.
LEMMA CalmSteps ==
  ASSUME IInv, Calm => Kept, Next, Calm'
  PROVE  /\ Calm
         /\ \/ \E r \in Report : QuietStep(r) \/ Stage(r) \/ Place(r) \/ Finalize(r)
            \/ Crash
            \/ RecoverStep
  <1> USE DEF Calm
  <1>1. ASSUME NEW r \in Report, FetchStep(r)
        PROVE  faults = 0 /\ tampers = 0 /\ (QuietStep(r) \/ Stage(r) \/ Place(r) \/ Finalize(r))
    <2>1. /\ faults \in Nat /\ tampers \in Nat
          /\ tampers' = tampers
          /\ faults' = faults \/ faults' = faults + 1
      BY <1>1 DEF IInv, TypeOK, FetchStep, Discover, LeaveOut, UpsertForRefresh,
         UpsertAndLookup, UpsertAndMarkUnavailable, RegisterDownload, SkipAtDeadline,
         Register, Download, Stage, Place, RefuseOverwrite, Finalize, StepFails,
         MarkFailedReturns, MarkFailed, MarkFailedRaises, Abort, Close, envVars
    <2>2. faults = 0 /\ tampers = 0 /\ Kept
      BY <2>1
    <2>3. ~StepFails(r) /\ ~MarkFailedRaises(r) /\ ~Abort(r)
      BY <2>1, <2>2 DEF StepFails, MarkFailedRaises, Abort
    <2>4. ~UpsertAndMarkUnavailable(r)
      <3> SUFFICES ASSUME Served(r), ~Intact(r, current[r])
                   PROVE  FALSE
        BY DEF UpsertAndMarkUnavailable
      <3>1. current[r] \in Content /\ artState[r][current[r]] = "ready"
        BY ArchiveAssumption DEF ArchiveAssumption, IInv, TypeOK, Served, CurrentReady
      <3>2. /\ artName[r][current[r]] \in Name
            /\ disk[r][current[r]][artName[r][current[r]]] # "absent"
        BY <3>1 DEF IInv, ReadyIsOnDisk
      <3> QED
        BY <2>2, <3>1, <3>2 DEF Kept, NoDamage, Intact
    <2>5. ~RefuseOverwrite(r)
      <3> SUFFICES ASSUME pc[r] = "staged", Refused(r)
                   PROVE  FALSE
        BY DEF RefuseOverwrite
      <3>1. content[r] \in Content /\ target[r] \in Name
        BY DEF IInv, FetchInv
      <3> QED
        BY <2>2, <3>1 DEF Kept, NoDamage, Refused
    <2> QED
      BY <1>1, <2>2, <2>3, <2>4, <2>5 DEF FetchStep, QuietStep
  <1>2. ASSUME Crash
        PROVE  faults = 0 /\ tampers = 0
    BY <1>2 DEF Crash
  <1>3. ASSUME RecoverStep
        PROVE  faults = 0 /\ tampers = 0
    BY <1>3 DEF RecoverStep, RecoverFinalize, RecoverRename, RecoverAbandon,
       RecoverSweep, envVars
  <1>4. ASSUME NEW r \in Report, NEW c \in Content, NEW n \in Name, Tamper(r, c, n)
        PROVE  FALSE
    BY <1>4 DEF Tamper, IInv, TypeOK
  <1> QED
    BY <1>1, <1>2, <1>3, <1>4 DEF Next

\* A step that leaves the staged intents, their files and the served versions
\* as they are.
LeavesStaged(r) ==
    /\ mode = "up" /\ pc[r] \notin {"staged", "placed"}
    /\ UNCHANGED <<disk, mode, current, artState, intentContent, intentName>>
    /\ \A a \in Attempt :
         /\ intentState'[a] = "staged" <=> Staged(a)
         /\ intentState'[a] = "committed" => intentState[a] = "committed"
         /\ intentState'[a] \in {"staged", "committed"} =>
              intentReport'[a] = intentReport[a]
         /\ Staged(a) /\ a \in temp => a \in temp'
    /\ \A s \in Report :
         /\ status'[s] = "done" => status[s] = "done"
         /\ s # r => pc'[s] = pc[s] /\ attempt'[s] = attempt[s]

\* A quiet step is one: a new registration is not staged, and mark_failed and
\* the clean-up of prefetched files only meet what no running fetch owns.
LEMMA QuietLeaves ==
  ASSUME IInv, StagedOwned, NEW r \in Report, QuietStep(r)
  PROVE  LeavesStaged(r)
  <1> USE DEF rowVars, intentVars, fileVars, localVars, envVars, Goto, IInv, TypeOK,
              LeavesStaged, Staged
  <1>1. CASE Discover(r) \/ LeaveOut(r) \/ UpsertForRefresh(r) \/ UpsertAndLookup(r)
    <2>1. status' \in {status, [status EXCEPT ![r] = Upserted(r)]}
      BY <1>1 DEF Discover, LeaveOut, UpsertForRefresh, UpsertAndLookup
    <2>2. \A s \in Report : status'[s] = "done" => status[s] = "done"
      BY <2>1 DEF Upserted
    <2>3. temp \subseteq temp'
      BY <1>1 DEF Discover, LeaveOut, UpsertForRefresh, UpsertAndLookup
    <2>4. \A s \in Report : s # r => pc'[s] = pc[s] /\ attempt'[s] = attempt[s]
      BY <1>1 DEF Discover, LeaveOut, UpsertForRefresh, UpsertAndLookup
    <2> QED
      BY <1>1, <2>2, <2>3, <2>4
      DEF Discover, LeaveOut, UpsertForRefresh, UpsertAndLookup
  <1>2. CASE Download(r) \/ MarkFailedReturns(r)
    BY <1>2 DEF Download, MarkFailedReturns
  <1>3. ASSUME NEW label \in FetchPc, Register(r, label)
        PROVE  LeavesStaged(r)
    <2>1. attempt[r] \in Attempt /\ ~Staged(attempt[r])
      BY <1>3 DEF Register, FetchInv, IsLive
    <2>2. status'[r] = "done" => status[r] = "done"
      BY <1>3 DEF Register, RegisteredStatus, ManifestAgrees
    <2> QED
      BY <1>3, <2>1, <2>2 DEF Register
  <1>4. CASE RegisterDownload(r) \/ SkipAtDeadline(r)
    BY <1>3, <1>4 DEF RegisterDownload, SkipAtDeadline, FetchPc
  <1>5. CASE MarkFailed(r)
    <2>1. \A a \in Attempt : Staged(a) => intentReport[a] # r
      BY <1>5, OwnerIsReport DEF MarkFailed, Owns
    <2> QED
      BY <1>5, <2>1 DEF MarkFailed, FailedIntents, IsLive
  <1>6. CASE Close(r)
    <2>1. \A a \in Attempt : Staged(a) => a # attempt[r]
      <3> SUFFICES ASSUME NEW a \in Attempt, Staged(a), a = attempt[r]
                   PROVE  FALSE
        OBVIOUS
      <3>1. PICK s \in Report : Owns(s, a)
        BY <1>6 DEF StagedOwned, Close
      <3> QED
        BY <1>6, <3>1 DEF Close, Owns, FetchInv
    <2> QED
      BY <1>6, <2>1 DEF Close
  <1> QED
    BY <1>1, <1>2, <1>4, <1>5, <1>6 DEF QuietStep

\* Steps that leave the staged intents alone keep the layer.
LEMMA QuietKept ==
  ASSUME IInv, Kept, NEW r \in Report, LeavesStaged(r)
  PROVE  Kept'
  <1> USE DEF LeavesStaged, Kept, IInv, TypeOK
  <1>1. \A a \in Attempt : Staged(a)' <=> Staged(a)
    BY DEF Staged
  <1>2. NoDamage'
    BY DEF NoDamage
  <1>3. StagedCompletable'
    BY <1>1 DEF StagedCompletable, Completable, TargetGood
  <1>4. ASSUME NEW a \in Attempt, Staged(a)'
        PROVE  \E s \in Report : Owns(s, a)'
    <2>1. PICK s \in Report : Owns(s, a)
      BY <1>1, <1>4 DEF StagedOwned
    <2>2. s # r
      BY <2>1 DEF Owns
    <2>3. Owns(s, a)'
      BY <2>1, <2>2 DEF Owns
    <2> QED
      BY <2>3
  <1>5. ASSUME NEW s \in Report, status'[s] = "done", ~CurrentReady(s)'
        PROVE  \E a \in Attempt : Staged(a)' /\ intentReport'[a] = s
    <2>1. PICK a \in Attempt : Staged(a) /\ intentReport[a] = s
      BY <1>5 DEF HiddenIsStaged, CurrentReady
    <2>2. Staged(a)' /\ intentReport'[a] = s
      BY <2>1 DEF Staged
    <2> QED
      BY <2>2
  <1>6. NoneOvertaken'
    BY <1>1 DEF NoneOvertaken, Staged
  <1> QED
    BY <1>2, <1>3, <1>4, <1>5, <1>6 DEF StagedOwned, HiddenIsStaged

\* Staging: the new staged intent has its temporary file and its owner, and no
\* attempt of the report is later.
LEMMA StageKept ==
  ASSUME IInv, TurnInv, Kept, NEW r \in Report, Stage(r)
  PROVE  Kept'
  <1> USE DEF Stage, StagedState, Kept, IInv, TypeOK, Goto, fileVars, envVars
  <1> DEFINE a0 == attempt[r]
  <1>1. /\ a0 \in Attempt /\ content[r] \in Content
        /\ intentReport[a0] = r /\ ~Staged(a0)
        /\ attempt' = attempt
    BY DEF FetchInv, Staged
  <1>2. /\ Staged(a0)' /\ intentReport' = intentReport
        /\ \A a \in Attempt : a # a0 =>
             /\ intentState'[a] = intentState[a]
             /\ intentContent'[a] = intentContent[a] /\ intentName'[a] = intentName[a]
    BY <1>1 DEF Staged
  <1>3. Owns(r, a0)'
    BY <1>1 DEF Owns
  <1>4. NoDamage'
    BY DEF NoDamage
  <1>5. StagedCompletable'
    BY <1>1, <1>2 DEF StagedCompletable, Completable, TargetGood, Staged
  <1>6. ASSUME NEW a \in Attempt, Staged(a)', mode' = "up"
        PROVE  \E s \in Report : Owns(s, a)'
    <2>1. CASE a = a0
      BY <2>1, <1>3
    <2>2. CASE a # a0
      <3>1. PICK s \in Report : Owns(s, a)
        BY <1>2, <1>6, <2>2 DEF StagedOwned, Staged
      <3>2. s # r
        BY <2>2, <3>1 DEF Owns
      <3>3. Owns(s, a)'
        BY <1>1, <3>1, <3>2 DEF Owns
      <3> QED
        BY <3>3
    <2> QED
      BY <2>1, <2>2
  <1>7. ASSUME NEW s \in Report, status'[s] = "done", ~CurrentReady(s)'
        PROVE  \E a \in Attempt : Staged(a)' /\ intentReport'[a] = s
    <2>1. CASE s = r
      BY <1>1, <1>2, <2>1
    <2>2. CASE s # r
      <3>1. artState'[s] = artState[s] /\ current' = current /\ status' = status
        BY <2>2
      <3>2. PICK a \in Attempt : Staged(a) /\ intentReport[a] = s
        BY <1>7, <3>1 DEF HiddenIsStaged, CurrentReady
      <3> QED
        BY <1>1, <1>2, <3>2 DEF Staged
    <2> QED
      BY <2>1, <2>2
  <1>8. ASSUME NEW a \in Attempt, NEW b \in Attempt, a < b, Staged(a)',
               intentState'[b] = "committed"
        PROVE  intentReport'[a] # intentReport'[b]
    <2>1. b # a0 /\ intentState[b] = "committed"
      BY <1>2, <1>8 DEF Staged
    <2>2. CASE a = a0
      BY <1>1, <1>2, <1>8, <2>2 DEF TurnInv
    <2>3. CASE a # a0
      BY <1>2, <1>8, <2>1, <2>3 DEF NoneOvertaken, Staged
    <2> QED
      BY <2>2, <2>3
  <1> QED
    BY <1>4, <1>5, <1>6, <1>7, <1>8 DEF StagedOwned, HiddenIsStaged, NoneOvertaken

\* Renaming: what loses its temporary file has its target.
LEMMA PlaceKept ==
  ASSUME IInv, Kept, NEW r \in Report, Place(r)
  PROVE  Kept'
  <1> USE DEF Place, PlacedDisk, Kept, IInv, TypeOK, Goto, rowVars, intentVars,
              localVars, envVars
  <1>1. /\ attempt[r] \in Attempt /\ content[r] \in Content /\ target[r] \in Name
        /\ intentReport[attempt[r]] = r /\ intentContent[attempt[r]] = content[r]
        /\ intentName[attempt[r]] = target[r]
    BY DEF FetchInv
  <1>2. /\ disk'[r][content[r]][target[r]] = "good"
        /\ \A s \in Report, c \in Content, n \in Name :
             disk'[s][c][n] \in {disk[s][c][n], "good"}
    BY <1>1
  <1>3. NoDamage'
    BY <1>2 DEF NoDamage
  <1>4. ASSUME NEW a \in Attempt, Staged(a)'
        PROVE  Completable(a)'
    <2>1. Staged(a)
      BY <1>4 DEF Staged
    <2>2. CASE a = attempt[r]
      BY <1>1, <1>2, <2>2 DEF Completable, TargetGood
    <2>3. CASE a # attempt[r] /\ a \in temp
      BY <2>3 DEF Completable
    <2>4. CASE TargetGood(a)
      <3>1. /\ intentReport[a] \in Report /\ intentContent[a] \in Content
            /\ intentName[a] \in Name
        BY <2>1 DEF IntentInv, IsLive, Staged
      <3> QED
        BY <1>2, <2>4, <3>1 DEF Completable, TargetGood
    <2> QED
      BY <2>1, <2>2, <2>3, <2>4 DEF StagedCompletable, Completable
  <1>5. StagedOwned'
    BY DEF StagedOwned, Owns, Staged
  <1>6. HiddenIsStaged'
    BY DEF HiddenIsStaged, CurrentReady, Staged
  <1>7. NoneOvertaken'
    BY DEF NoneOvertaken, Staged
  <1> QED
    BY <1>3, <1>4, <1>5, <1>6, <1>7 DEF StagedCompletable

\* Publication, in a fetch or by the recovery scan, of a staged intent that no
\* earlier one of its report waits behind: the report is shown, no other report
\* changes.
LEMMA PublishKept ==
  ASSUME IInv, Kept, NEW a0 \in Attempt, Staged(a0), UNCHANGED fileVars,
         Publish(intentReport[a0], intentContent[a0], intentName[a0], a0),
         \A a \in Attempt : a < a0 /\ Staged(a) => intentReport[a] # intentReport[a0]
  PROVE  NoDamage' /\ StagedCompletable' /\ HiddenIsStaged' /\ NoneOvertaken'
  <1> USE DEF Publish, Kept, IInv, TypeOK, fileVars
  <1> DEFINE r == intentReport[a0]
             c == intentContent[a0]
  <1>1. r \in Report /\ c \in Content
    BY DEF IntentInv, IsLive, Staged
  <1>2. /\ intentState'[a0] = "committed"
        /\ \A a \in Attempt : a # a0 => intentState'[a] = intentState[a]
    OBVIOUS
  <1>3. NoDamage'
    BY DEF NoDamage
  <1>4. StagedCompletable'
    BY <1>2 DEF StagedCompletable, Completable, TargetGood, Staged
  <1>5. ASSUME NEW s \in Report, status'[s] = "done", ~CurrentReady(s)'
        PROVE  \E a \in Attempt : Staged(a)' /\ intentReport'[a] = s
    <2>1. s # r
      <3>1. current'[r] = c /\ artState'[r][c] = "ready"
        BY <1>1
      <3> QED
        BY <1>1, <1>5, <3>1, ArchiveAssumption DEF CurrentReady, ArchiveAssumption
    <2>2. status'[s] = status[s] /\ current'[s] = current[s] /\ artState'[s] = artState[s]
      BY <2>1
    <2>3. PICK a \in Attempt : Staged(a) /\ intentReport[a] = s
      BY <1>5, <2>2 DEF HiddenIsStaged, CurrentReady
    <2> QED
      BY <1>2, <2>1, <2>3 DEF Staged
  <1>6. ASSUME NEW a \in Attempt, NEW b \in Attempt, a < b, Staged(a)',
               intentState'[b] = "committed"
        PROVE  intentReport'[a] # intentReport'[b]
    <2>1. a # a0 /\ Staged(a)
      BY <1>2, <1>6 DEF Staged
    <2>2. CASE b = a0
      BY <1>6, <2>1, <2>2
    <2>3. CASE b # a0
      BY <1>2, <1>6, <2>1, <2>3 DEF NoneOvertaken
    <2> QED
      BY <2>2, <2>3
  <1> QED
    BY <1>3, <1>4, <1>5, <1>6 DEF HiddenIsStaged, NoneOvertaken

LEMMA FinalizeKept ==
  ASSUME IInv, Kept, NEW r \in Report, Finalize(r)
  PROVE  Kept'
  <1> USE DEF Finalize, IInv
  <1>1. /\ attempt[r] \in Attempt /\ Staged(attempt[r])
        /\ intentReport[attempt[r]] = r /\ intentContent[attempt[r]] = content[r]
        /\ intentName[attempt[r]] = target[r]
    BY DEF FetchInv
  <1>2. \A a \in Attempt : Staged(a) /\ intentReport[a] = r => a = attempt[r]
    BY OwnerIsReport DEF Kept, Owns
  <1>3. NoDamage' /\ StagedCompletable' /\ HiddenIsStaged' /\ NoneOvertaken'
    BY <1>1, <1>2, PublishKept DEF Attempt
  <1>4. ASSUME NEW a \in Attempt, Staged(a)'
        PROVE  \E s \in Report : Owns(s, a)'
    <2>1. a # attempt[r] /\ Staged(a)
      BY <1>1, <1>4 DEF Publish, TypeOK, Staged
    <2>2. PICK s \in Report : Owns(s, a)
      BY <2>1 DEF Kept, StagedOwned
    <2>3. s # r
      BY <2>1, <2>2 DEF Owns
    <2>4. Owns(s, a)'
      BY <2>2, <2>3 DEF Owns, Goto, TypeOK, localVars
    <2> QED
      BY <2>4
  <1> QED
    BY <1>3, <1>4 DEF Kept, StagedOwned

\* Death and the recovery scan: a rename completes the intent it is for, the
\* oldest intent is published first, and none that is staged is abandoned.
LEMMA RecoveryKept ==
  ASSUME IInv, Kept, Crash \/ RecoverStep
  PROVE  Kept'
  <1> USE DEF IInv, TypeOK, rowVars, intentVars, fileVars, localVars, envVars
  <1>1. CASE Crash
    <2>1. NoDamage' /\ StagedCompletable' /\ HiddenIsStaged' /\ NoneOvertaken'
      BY <1>1 DEF Crash, Kept, NoDamage, StagedCompletable, Completable, TargetGood,
         HiddenIsStaged, CurrentReady, NoneOvertaken, Staged
    <2> QED
      BY <1>1, <2>1 DEF Crash, Kept, StagedOwned
  <1>2. ASSUME NEW a \in Attempt, RecoverFinalize(a)
        PROVE  Kept'
    <2>1. \A b \in Attempt : b < a => ~Staged(b)
      BY <1>2 DEF RecoverFinalize, Oldest, Live, IsLive, Staged, Attempt
    <2>2. NoDamage' /\ StagedCompletable' /\ HiddenIsStaged' /\ NoneOvertaken'
      BY <1>2, <2>1, PublishKept DEF RecoverFinalize
    <2> QED
      BY <1>2, <2>2 DEF Kept, StagedOwned, RecoverFinalize
  <1>3. ASSUME NEW a \in Attempt, RecoverRename(a)
        PROVE  Kept'
    <2> USE <1>3 DEF RecoverRename, Kept
    <2>1. \A b \in Attempt : Staged(b) =>
            intentReport[b] \in Report /\ intentContent[b] \in Content /\ intentName[b] \in Name
      BY DEF IntentInv, IsLive, Staged
    <2>2. /\ TargetGood(a)'
          /\ \A r \in Report, c \in Content, n \in Name :
               disk'[r][c][n] \in {disk[r][c][n], "good"}
      BY <2>1 DEF TargetGood
    <2>3. NoDamage'
      BY <2>2 DEF NoDamage
    <2>4. StagedCompletable'
      BY <2>1, <2>2 DEF StagedCompletable, Completable, TargetGood, Staged
    <2>5. HiddenIsStaged' /\ NoneOvertaken' /\ StagedOwned'
      BY DEF HiddenIsStaged, CurrentReady, NoneOvertaken, StagedOwned, Staged
    <2> QED
      BY <2>3, <2>4, <2>5
  <1>4. ASSUME NEW a \in Attempt, RecoverAbandon(a)
        PROVE  Kept'
    <2> USE <1>4 DEF RecoverAbandon, Kept
    <2>1. ~Staged(a)
      BY DEF StagedCompletable
    <2>2. \A b \in Attempt : intentState'[b] \in {"staged", "committed"} =>
            intentState[b] = intentState'[b]
      OBVIOUS
    <2>3. \A b \in Attempt : Staged(b)' <=> Staged(b)
      BY <2>1, <2>2 DEF Staged
    <2>4. \A r \in Report : status'[r] = "done" => status[r] = "done"
      BY DEF AbandonedStatus
    <2>5. NoDamage' /\ StagedCompletable'
      BY <2>3 DEF NoDamage, StagedCompletable, Completable, TargetGood
    <2>6. HiddenIsStaged'
      BY <2>3, <2>4 DEF HiddenIsStaged, CurrentReady
    <2>7. NoneOvertaken' /\ StagedOwned'
      BY <2>2, <2>3 DEF NoneOvertaken, StagedOwned
    <2> QED
      BY <2>5, <2>6, <2>7
  <1>5. CASE RecoverSweep
    <2> USE <1>5 DEF RecoverSweep, Kept
    <2>1. \A a \in Attempt : ~Staged(a) /\ ~Staged(a)'
      BY DEF ScanDone, Live, IsLive, Staged
    <2>2. NoDamage' /\ StagedCompletable' /\ StagedOwned' /\ NoneOvertaken'
      BY <2>1 DEF NoDamage, StagedCompletable, StagedOwned, NoneOvertaken
    <2>3. HiddenIsStaged'
      BY <2>1 DEF HiddenIsStaged, CurrentReady
    <2> QED
      BY <2>2, <2>3
  <1> QED
    BY <1>1, <1>2, <1>3, <1>4, <1>5 DEF RecoverStep

\* Attempts are given out in turn by Discover, and Register is the only step
\* that names a report in an intent: that of the attempt the report was given.
LEMMA TurnInvPreserved ==
  ASSUME IInv, TurnInv, [Next]_vars
  PROVE  TurnInv'
  <1> USE ArchiveAssumption DEF ArchiveAssumption, IInv, TypeOK, TurnInv, Attempt
  <1> USE DEF rowVars, intentVars, fileVars, localVars, envVars, Goto
  <1>1. ASSUME UNCHANGED <<intentReport, nextAttempt>>,
               \A r \in Report : pc'[r] = "idle" \/ (pc[r] # "idle" /\ attempt'[r] = attempt[r])
        PROVE  TurnInv'
    BY <1>1
  <1>2. ASSUME NEW r \in Report, FetchStep(r)
        PROVE  TurnInv'
    <2>1. CASE Discover(r)
      <3>1. /\ attempt'[r] = nextAttempt /\ nextAttempt' = nextAttempt + 1
            /\ intentReport' = intentReport
            /\ \A s \in Report : s # r => pc'[s] = pc[s] /\ attempt'[s] = attempt[s]
        BY <2>1 DEF Discover
      <3> QED
        BY <3>1
    <2>2. ASSUME NEW label \in FetchPc, Register(r, label)
          PROVE  TurnInv'
      <3>1. /\ pc[r] # "idle" /\ attempt[r] \in Attempt /\ attempt[r] < nextAttempt
            /\ intentReport' = [intentReport EXCEPT ![attempt[r]] = r]
            /\ UNCHANGED <<attempt, nextAttempt>>
            /\ \A s \in Report : s # r => pc'[s] = pc[s]
        BY <2>2 DEF Register, FetchInv
      <3> QED
        BY <3>1
    <2>3. CASE RegisterDownload(r) \/ SkipAtDeadline(r)
      BY <2>2, <2>3 DEF RegisterDownload, SkipAtDeadline, FetchPc
    <2>4. CASE \/ UpsertForRefresh(r) \/ UpsertAndLookup(r) \/ UpsertAndMarkUnavailable(r)
               \/ Download(r) \/ Stage(r) \/ Place(r) \/ Finalize(r) \/ MarkFailed(r)
      BY <1>1, <2>4 DEF UpsertForRefresh, UpsertAndLookup, UpsertAndMarkUnavailable,
         Download, Stage, Place, Finalize, Publish, MarkFailed
    <2>5. CASE ControlStep(r) \/ Abort(r) \/ Close(r)
      BY <1>1, <2>5 DEF ControlStep, RefuseOverwrite, StepFails, MarkFailedReturns,
         MarkFailedRaises, Abort, LeaveOut, Close
    <2> QED
      BY <1>2, <2>1, <2>3, <2>4, <2>5 DEF FetchStep, ControlStep
  <1>3. CASE Crash
    BY <1>1, <1>3 DEF Crash
  <1>4. CASE RecoverStep
    <2>1. UNCHANGED <<intentReport, nextAttempt, pc, attempt>>
      BY <1>4 DEF RecoverStep, RecoverFinalize, Publish, RecoverRename, RecoverAbandon,
         RecoverSweep
    <2> QED
      BY <2>1
  <1>5. ASSUME NEW r \in Report, NEW c \in Content, NEW n \in Name, Tamper(r, c, n)
        PROVE  TurnInv'
    BY <1>5 DEF Tamper
  <1>6. CASE UNCHANGED vars
    BY <1>6 DEF vars
  <1> QED
    BY <1>2, <1>3, <1>4, <1>5, <1>6 DEF Next

\* The second layer holds initially and is kept by every step.
LEMMA InitCalmInv == Init => CalmInv
  BY DEF Init, CalmInv, TurnInv, Calm, Kept, NoDamage, StagedCompletable, StagedOwned,
     HiddenIsStaged, NoneOvertaken, Staged

LEMMA CalmInvPreserved ==
  ASSUME IInv, CalmInv, [Next]_vars
  PROVE  CalmInv'
  <1>1. TurnInv'
    BY TurnInvPreserved DEF CalmInv
  <1>2. ASSUME Next, Calm'
        PROVE  Kept'
    <2>1. /\ TurnInv /\ Kept
          /\ \/ \E r \in Report : QuietStep(r) \/ Stage(r) \/ Place(r) \/ Finalize(r)
             \/ Crash
             \/ RecoverStep
      BY <1>2, CalmSteps DEF CalmInv
    <2>2. ASSUME NEW r \in Report, QuietStep(r)
          PROVE  Kept'
      BY <2>1, <2>2, QuietLeaves, QuietKept DEF Kept
    <2> QED
      BY <2>1, <2>2, StageKept, PlaceKept, FinalizeKept, RecoveryKept
  <1>3. ASSUME UNCHANGED vars, Calm'
        PROVE  Kept'
    BY <1>3 DEF vars, rowVars, intentVars, fileVars, localVars, envVars, CalmInv, Calm,
       Kept, NoDamage, StagedCompletable, Completable, TargetGood, StagedOwned, Owns,
       HiddenIsStaged, CurrentReady, NoneOvertaken, Staged
  <1> QED
    BY <1>1, <1>2, <1>3 DEF CalmInv

-----------------------------------------------------------------------------
(* Theorems.                                                               *)

\* The inductive invariant holds in every reachable state, crashes and
\* recovery included.
THEOREM Invariance == Spec => []IInv
  <1>1. Init => IInv
    BY InitIInv
  <1>2. IInv /\ [Next]_vars => IInv'
    BY TypeOKPreserved, FetchInvPreserved, IntentInvPreserved, ReadyIsOnDiskPreserved,
       ManifestAgreesPreserved, DownloadingIsResolvablePreserved DEF IInv
  <1> QED
    BY <1>1, <1>2, PTL DEF Spec

\* Rows, files and program counters stay within their domains (store.py tables,
\* core.py stages).
THEOREM TypeCorrect == Spec => []TypeOK
  BY Invariance, PTL DEF IInv

\* A ready artifact row always names a path its content was renamed to
\* (commit_file, _recover, _finalize_commit).
THEOREM ReadyRowsHaveFiles == Spec => []ReadyIsOnDisk
  BY Invariance, PTL DEF IInv

\* Manifest and artifact rows agree on what is served (register_download,
\* _finalize_commit, mark_failed, _mark_artifact_unavailable).
THEOREM ManifestAgreement == Spec => []ManifestAgrees
  BY Invariance, PTL DEF IInv

\* A first download that was interrupted is found again by mark_failed or by
\* the recovery scan (register_download, _recover).
THEOREM DownloadsResolvable == Spec => []DownloadingIsResolvable
  BY Invariance, PTL DEF IInv

\* From staging to publication the verified bytes are in .tmp or in place
\* (commit_file).
THEOREM InFlightNeverLost == Spec => []InFlightRecoverable
  <1>1. IInv => InFlightRecoverable
    BY DEF IInv, FetchInv, InFlightRecoverable
  <1> QED
    BY Invariance, <1>1, PTL

\* Taking the first of several attempts away does not change which is the last.
LEMMA LastOfOthers ==
  ASSUME NEW S \in SUBSET Attempt, NEW a \in S, \A b \in S : a <= b, S \ {a} # {}
  PROVE  LastOf(S \ {a}) = LastOf(S)
  <1>1. PICK c \in S : c # a
    OBVIOUS
  <1>2. \A b \in S : b \in Int
    BY DEF Attempt
  <1>3. a \notin LastOf(S)
    BY <1>1, <1>2 DEF LastOf
  <1>4. ASSUME NEW x \in S \ {a}
        PROVE  x \in LastOf(S \ {a}) <=> x \in LastOf(S)
    BY <1>4 DEF LastOf
  <1>5. LastOf(S \ {a}) \subseteq S \ {a} /\ LastOf(S) \subseteq S
    BY DEF LastOf
  <1> QED
    BY <1>3, <1>4, <1>5

LEMMA LastOfOne ==
  ASSUME NEW a \in Attempt
  PROVE  LastOf({a}) = {a}
  BY DEF LastOf, Attempt

\* What the scan leads to depends on the rows and on which attempts it has left.
LEMMA SameOutcome ==
  ASSUME UNCHANGED <<status, current, artState, intentContent>>,
         NEW r \in Report,
         Completing(r)' = Completing(r), Unfinished(r)' = Unfinished(r)
  PROVE  Outcome(r)' = Outcome(r)
  BY DEF Outcome, AbandonedStatus

\* Publishing the first attempt puts its content in place of the attempt: others
\* with the same target, which may have counted on its bytes, have them by now.
LEMMA FinalizeKeepsOutcome ==
  ASSUME IInv, NEW a \in Attempt, RecoverFinalize(a), NEW r \in Report
  PROVE  Outcome(r)' = Outcome(r)
  <1> USE DEF RecoverFinalize, Publish, fileVars, Oldest
  <1>0. /\ intentReport[a] \in Report /\ intentContent[a] \in Content
        /\ temp \subseteq Attempt
    BY DEF IInv, TypeOK, IntentInv, IsLive, Staged
  <1>1. /\ \A b \in Attempt : Staged(b)' <=> Staged(b) /\ b # a
        /\ \A b \in Attempt : IsLive(b)' <=> IsLive(b) /\ b # a
    BY DEF IInv, TypeOK, Staged, IsLive
  <1>2. \A b, c \in Attempt : SameTarget(b, c)' <=> SameTarget(b, c)
    BY DEF SameTarget
  <1>3. /\ \A b \in Attempt : TargetGood(b)' <=> TargetGood(b)
        /\ \A b \in Attempt : SameTarget(b, a) => TargetGood(b)
    BY DEF TargetGood, SameTarget
  <1>4. \A b \in Attempt : WillComplete(b)' <=> WillComplete(b) /\ b # a
    BY <1>0, <1>1, <1>2, <1>3 DEF WillComplete
  <1>5. /\ Completing(r)' = Completing(r) \ {a}
        /\ Unfinished(r)' = Unfinished(r) \ {a}
    BY <1>1, <1>4 DEF Completing, Unfinished, Live
  <1>6. CASE intentReport[a] # r
    <2>1. a \notin Unfinished(r)
      BY <1>6 DEF Unfinished
    <2>2. /\ Completing(r)' = Completing(r) /\ Unfinished(r)' = Unfinished(r)
          /\ status'[r] = status[r] /\ current'[r] = current[r] /\ artState'[r] = artState[r]
      BY <1>0, <1>5, <1>6, <2>1 DEF Completing, IInv, TypeOK
    <2> QED
      BY <2>2 DEF Outcome, AbandonedStatus
  <1>7. CASE intentReport[a] = r
    <2> DEFINE c == intentContent[a]
    <2>1. a \in Completing(r)
      BY <1>7 DEF Completing, Unfinished, WillComplete, Live
    <2>2. /\ Completing(r) \subseteq Attempt /\ \A b \in Completing(r) : a <= b
      BY DEF Completing, Unfinished, Live
    <2>3. /\ status'[r] = "done" /\ current'[r] = c
          /\ artState'[r] = [artState[r] EXCEPT ![c] = "ready"]
      BY <1>0, <1>7 DEF IInv, TypeOK
    <2>4. Outcome(r)'.version = Outcome(r).version
      <3>1. CASE Completing(r) = {a}
        <4>1. Completing(r)' = {}
          BY <1>5, <3>1
        <4>2. LastOf(Completing(r)) = {a}
          BY <3>1, LastOfOne
        <4> QED
          BY <2>1, <2>3, <4>1, <4>2 DEF Outcome
      <3>2. CASE Completing(r) \ {a} # {}
        BY <1>5, <2>1, <2>2, <3>2, LastOfOthers DEF Outcome
      <3> QED
        BY <2>1, <3>1, <3>2
    <2>5. Outcome(r)'.readable = Outcome(r).readable
      <3>1. {d \in Content : artState'[r][d] = "ready"}
              = {d \in Content : artState[r][d] = "ready"} \cup {c}
        BY <1>0, <1>7, <2>3 DEF IInv, TypeOK
      <3>2. {intentContent[b] : b \in Completing(r)}
              = {intentContent[b] : b \in Completing(r) \ {a}} \cup {c}
        BY <2>1
      <3> QED
        BY <1>5, <3>1, <3>2 DEF Outcome
    <2>6. Outcome(r)'.status = "done" /\ Outcome(r).status = "done"
      BY <2>1, <2>3 DEF Outcome, AbandonedStatus
    <2> QED
      BY <2>4, <2>5, <2>6 DEF Outcome
  <1> QED
    BY <1>6, <1>7

\* A rename turns the bytes an attempt counts on into its file in place.
LEMMA RenameKeepsOutcome ==
  ASSUME IInv, NEW a \in Attempt, RecoverRename(a), NEW r \in Report
  PROVE  Outcome(r)' = Outcome(r)
  <1> USE DEF RecoverRename, rowVars, intentVars, Oldest
  <1>1. \A b \in Attempt : Staged(b) =>
          intentReport[b] \in Report /\ intentContent[b] \in Content /\ intentName[b] \in Name
    BY DEF IInv, IntentInv, IsLive, Staged
  <1>2. /\ \A b \in Attempt : (Staged(b)' <=> Staged(b)) /\ (IsLive(b)' <=> IsLive(b))
        /\ \A b, c \in Attempt : SameTarget(b, c)' <=> SameTarget(b, c)
    BY DEF Staged, IsLive, SameTarget
  <1>3. \A b \in Attempt : Staged(b) =>
          (TargetGood(b)' <=> TargetGood(b) \/ SameTarget(b, a))
    BY <1>1 DEF IInv, TypeOK, TargetGood, SameTarget
  <1>4. \A b \in Attempt : Staged(b) => a <= b
    BY DEF Live, IsLive, Staged
  <1>5. ASSUME NEW b \in Attempt
        PROVE  WillComplete(b)' <=> WillComplete(b)
    <2>1. CASE Staged(b) /\ SameTarget(b, a)
      BY <1>2, <1>3, <1>4, <2>1 DEF WillComplete
    <2>2. CASE Staged(b) /\ ~SameTarget(b, a)
      <3>1. TargetGood(b)' <=> TargetGood(b)
        BY <1>3, <2>2
      <3>2. temp \subseteq Attempt
        BY DEF IInv, TypeOK
      <3> QED
        BY <1>2, <2>2, <3>1, <3>2 DEF WillComplete
    <2>3. CASE ~Staged(b)
      BY <1>2, <2>3 DEF WillComplete
    <2> QED
      BY <2>1, <2>2, <2>3
  <1>6. Completing(r)' = Completing(r) /\ Unfinished(r)' = Unfinished(r)
    BY <1>2, <1>5 DEF Completing, Unfinished, Live
  <1> QED
    BY <1>6, SameOutcome

\* Nothing counts on the bytes of an attempt that is abandoned: it has none, and
\* neither has an attempt before it.
LEMMA AbandonKeepsOutcome ==
  ASSUME IInv, NEW a \in Attempt, RecoverAbandon(a), NEW r \in Report
  PROVE  Outcome(r)' = Outcome(r)
  <1> USE DEF RecoverAbandon, fileVars, Oldest
  <1>1. /\ \A b \in Attempt : Staged(b)' <=> Staged(b) /\ b # a
        /\ \A b \in Attempt : IsLive(b)' <=> IsLive(b) /\ b # a
        /\ temp \subseteq Attempt
    BY DEF IInv, TypeOK, Staged, IsLive
  <1>2. /\ \A b, c \in Attempt : SameTarget(b, c)' <=> SameTarget(b, c)
        /\ \A b \in Attempt : TargetGood(b)' <=> TargetGood(b)
    BY DEF SameTarget, TargetGood
  <1>3. ~WillComplete(a)
    <2>1. \A b \in Attempt : Staged(b) => a <= b
      BY DEF Live, IsLive, Staged
    <2> QED
      BY <1>1, <2>1 DEF WillComplete, Completable, Attempt
  <1>4. \A b \in temp : Staged(b) => b # a
    BY DEF Completable
  <1>5. \A b \in Attempt : WillComplete(b)' <=> WillComplete(b)
    BY <1>1, <1>2, <1>3, <1>4 DEF WillComplete
  <1>6. /\ Completing(r)' = Completing(r)
        /\ Unfinished(r)' = Unfinished(r) \ {a}
    BY <1>1, <1>3, <1>5 DEF Completing, Unfinished, Live
  <1>7. CASE intentReport[a] # r
    <2>1. a \notin Unfinished(r) /\ status'[r] = status[r]
      BY <1>7 DEF Unfinished, IInv, TypeOK, IntentInv, Live
    <2> QED
      BY <1>6, <2>1 DEF Outcome, AbandonedStatus
  <1>8. CASE intentReport[a] = r
    <2>1. a \in Unfinished(r) /\ status'[r] = AbandonedStatus(r)
      BY <1>8 DEF Unfinished, IInv, TypeOK
    <2> QED
      BY <1>6, <2>1 DEF Outcome, AbandonedStatus
  <1> QED
    BY <1>7, <1>8

\* A restart leads to what the dead process left behind, through each step of the
\* recovery and each death of it in between (_recover, _finalize_commit,
\* _abandon_intent, _sweep_tmp).
THEOREM RestartIsDetermined == Spec => RecoveryIsDetermined
  <1> DEFINE Settled == mode = "recovering" /\ tampers' = tampers =>
                        \A r \in Report : Outcome(r)' = Outcome(r)
  <1>1. ASSUME IInv, [Next]_vars
        PROVE  Settled
    <2> SUFFICES ASSUME mode = "recovering", tampers' = tampers, NEW r \in Report
                 PROVE  Outcome(r)' = Outcome(r)
      OBVIOUS
    <2>1. CASE \E s \in Report : FetchStep(s)
      BY <2>1 DEF FetchStep, Discover, LeaveOut, UpsertForRefresh, UpsertAndLookup,
         UpsertAndMarkUnavailable, RegisterDownload, SkipAtDeadline, Register, Download,
         Stage, Place, RefuseOverwrite, Finalize, StepFails, MarkFailedReturns,
         MarkFailed, MarkFailedRaises, Abort, Close
    <2>2. CASE Crash \/ UNCHANGED vars
      <3>1. UNCHANGED <<status, current, artState, intentVars, disk, temp>>
        BY <2>2 DEF Crash, vars, rowVars, fileVars
      <3>2. Completing(r)' = Completing(r) /\ Unfinished(r)' = Unfinished(r)
        BY <3>1 DEF Completing, Unfinished, Live, IsLive, WillComplete, TargetGood,
           SameTarget, Staged, intentVars
      <3> QED
        BY <3>1, <3>2, SameOutcome DEF intentVars
    <2>3. CASE \E a \in Attempt : RecoverFinalize(a) \/ RecoverRename(a) \/ RecoverAbandon(a)
      BY <1>1, <2>3, FinalizeKeepsOutcome, RenameKeepsOutcome, AbandonKeepsOutcome
    <2>4. CASE RecoverSweep
      <3>1. UNCHANGED <<status, current, artState, intentContent>> /\ Live = {} /\ Live' = {}
        BY <2>4 DEF RecoverSweep, ScanDone, rowVars, intentVars, Live, IsLive
      <3>2. Completing(r)' = Completing(r) /\ Unfinished(r)' = Unfinished(r)
        BY <3>1 DEF Completing, Unfinished
      <3> QED
        BY <3>1, <3>2, SameOutcome
    <2>5. CASE \E s \in Report, c \in Content, n \in Name : Tamper(s, c, n)
      BY <1>1, <2>5 DEF Tamper, IInv, TypeOK
    <2> QED
      BY <1>1, <2>1, <2>2, <2>3, <2>4, <2>5 DEF Next, RecoverStep
  <1> QED
    BY Invariance, <1>1, PTL DEF Spec, RecoveryIsDetermined

\* The second layer holds in every reachable state.
THEOREM CalmInvariance == Spec => []CalmInv
  <1>1. IInv /\ CalmInv /\ [Next]_vars => CalmInv'
    BY CalmInvPreserved
  <1> QED
    BY Invariance, InitCalmInv, <1>1, PTL DEF Spec

\* While nothing but crashes goes wrong, however often the process dies and
\* between whichever steps, a report at rest that has been archived is served
\* (commit_file, _recover).
THEOREM ServedSurvivesCrashes == Spec => []CrashesKeepServed
  <1>1. ASSUME IInv, CalmInv
        PROVE  CrashesKeepServed
    <2> SUFFICES ASSUME faults = 0, tampers = 0, mode = "up",
                        NEW r \in Report, pc[r] = "idle", status[r] = "done", ~Served(r)
                 PROVE  FALSE
      BY DEF CrashesKeepServed, ArchivedStaysServed, AtRest
    <2>1. Kept
      BY <1>1 DEF CalmInv, Calm
    <2>2. PICK a \in Attempt : Staged(a) /\ intentReport[a] = r
      BY <2>1 DEF Kept, HiddenIsStaged, Served
    <2> QED
      BY <1>1, <2>1, <2>2, OwnerIsReport DEF Kept, Owns
  <1> QED
    BY Invariance, CalmInvariance, <1>1, PTL

\* While nothing but crashes goes wrong, no recovery publishes an attempt after
\* a later one of the same report and makes it current (_recover, commit_file).
THEOREM OrderSurvivesCrashes == Spec => CrashesKeepOrder
  <1> DEFINE Ordered == faults = 0 /\ tampers = 0 => InOrderStep
  <1>1. ASSUME IInv, CalmInv, Next
        PROVE  Ordered
    <2> SUFFICES ASSUME faults = 0, tampers = 0, NEW a \in Attempt, NEW b \in Attempt,
                        Publishes(a), a < b, intentState[b] = "committed",
                        intentReport[b] = intentReport[a]
                 PROVE  FALSE
      BY DEF InOrderStep
    <2>1. Staged(a)
      <3>1. CASE \E r \in Report : Finalize(r)
        BY <1>1, <3>1 DEF IInv, TypeOK, FetchInv, Finalize, Publish, Publishes, Staged
      <3>2. CASE \E x \in Attempt : RecoverFinalize(x)
        BY <1>1, <3>2 DEF IInv, TypeOK, RecoverFinalize, Publish, Publishes, Staged
      <3>3. CASE ~(\E r \in Report : Finalize(r)) /\ ~(\E x \in Attempt : RecoverFinalize(x))
        <4>1. intentState'[a] # "committed"
          BY <1>1, <3>3 DEF IInv, TypeOK, Publishes, Next, FetchStep, RecoverStep, Crash,
             Tamper, RecoverRename, RecoverAbandon, RecoverSweep, Discover,
             UpsertForRefresh, UpsertAndLookup, UpsertAndMarkUnavailable,
             RegisterDownload, SkipAtDeadline, Register, Download, Stage, Place,
             RefuseOverwrite, StepFails, MarkFailedReturns, MarkFailed, FailedIntents,
             MarkFailedRaises, Abort, LeaveOut, Close, rowVars, intentVars
        <4> QED
          BY <4>1 DEF Publishes
      <3> QED
        BY <3>1, <3>2, <3>3
    <2> QED
      BY <1>1, <2>1 DEF CalmInv, Calm, Kept, NoneOvertaken
  <1>2. ASSUME UNCHANGED vars
        PROVE  Ordered
    BY <1>2 DEF vars, rowVars, intentVars, InOrderStep, Publishes
  <1> QED
    BY Invariance, CalmInvariance, <1>1, <1>2, PTL DEF Spec, CrashesKeepOrder
=============================================================================
