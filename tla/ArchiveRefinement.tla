-------------------------- MODULE ArchiveRefinement --------------------------
(***************************************************************************)
(* The archive implements Archive and ArchiveView, for every set of        *)
(* reports, contents and names and every value of the bounds: each step of *)
(* ArchiveStore is a step of both under the mappings of ArchiveStore, or   *)
(* leaves them alone.                                                      *)
(***************************************************************************)
EXTENDS ArchiveStoreProofs

-----------------------------------------------------------------------------
(* From facts about each report to steps of Archive.                       *)

\* Everything the mapping shows of report s is as before.
Same(s) == /\ ShownVersion(s)' = ShownVersion(s)
           /\ IsDamaged(s)' = IsDamaged(s)
           /\ OnHand(s)' = OnHand(s)

LEMMA OnHandInContent ==
  ASSUME IInv, NEW r \in Report
  PROVE  OnHand(r) \subseteq Content
  BY DEF IInv, TypeOK, IntentInv, OnHand

\* The rows, the shown file and the staged intents of report s are untouched.
FrameOK(s) ==
    /\ status'[s] = status[s] /\ current'[s] = current[s]
    /\ artState'[s] = artState[s] /\ artName'[s] = artName[s]
    /\ disk'[s] = disk[s] /\ content'[s] = content[s]
    /\ \A a \in Attempt :
         /\ Staged(a)' /\ intentReport'[a] = s <=> Staged(a) /\ intentReport[a] = s
         /\ Staged(a) /\ intentReport[a] = s => intentContent'[a] = intentContent[a]

LEMMA FrameSame ==
  ASSUME NEW s \in Report, FrameOK(s)
  PROVE  Same(s)
  <1>1. ShownVersion(s)' = ShownVersion(s) /\ IsDamaged(s)' = IsDamaged(s)
    BY DEF FrameOK, ShownVersion, IsDamaged, Served, CurrentReady, Intact
  <1>2. OnHand(s)' = OnHand(s)
    BY DEF FrameOK, OnHand
  <1> QED
    BY <1>1, <1>2 DEF Same

LEMMA StutterStep ==
  ASSUME \A s \in Report : Same(s)
  PROVE  UNCHANGED A!archiveVars
  BY DEF Same, A!archiveVars

LEMMA DropStep ==
  ASSUME IInv,
         \A s \in Report : /\ ShownVersion(s)' = ShownVersion(s)
                           /\ IsDamaged(s)' = IsDamaged(s)
                           /\ OnHand(s)' \subseteq OnHand(s)
  PROVE  A!Drop
  <1>1. \A s \in Report : OnHand(s)' \subseteq Content
    BY OnHandInContent
  <1> QED
    BY <1>1 DEF A!Drop

LEMMA DeliverStep ==
  ASSUME NEW r \in Report, NEW c \in Content,
         \A s \in Report \ {r} : Same(s),
         ShownVersion(r)' = ShownVersion(r),
         IsDamaged(r)' = IsDamaged(r),
         OnHand(r)' = OnHand(r) \cup {c}
  PROVE  A!Deliver(r, c)
  BY DEF A!Deliver, Same

LEMMA WithdrawStep ==
  ASSUME NEW r \in Report,
         \A s \in Report \ {r} : Same(s),
         ShownVersion(r) # NoContent, ShownVersion(r)' = NoContent,
         IsDamaged(r) \/ ShownVersion(r) \in OnHand(r),
         OnHand(r)' = OnHand(r), ~IsDamaged(r)'
  PROVE  A!Withdraw(r)
  BY DEF A!Withdraw, Same

LEMMA ShowStep ==
  ASSUME NEW r \in Report, NEW c \in Content,
         \A s \in Report \ {r} : Same(s),
         c \in OnHand(r), ShownVersion(r)' = c,
         OnHand(r)' \subseteq OnHand(r)
  PROVE  A!Show(r, c)
  <1> DEFINE damaged == {s \in Report : IsDamaged(s)}
  <1>1. damaged' \in {damaged \cup {r}, damaged \ {r}}
    <2>1. CASE IsDamaged(r)'
      BY <2>1 DEF Same
    <2>2. CASE ~IsDamaged(r)'
      BY <2>2 DEF Same
    <2> QED
      BY <2>1, <2>2
  <1>2. [s \in Report |-> ShownVersion(s)']
          = [[s \in Report |-> ShownVersion(s)] EXCEPT ![r] = c]
    BY DEF Same
  <1>3. [s \in Report |-> OnHand(s)']
          = [[s \in Report |-> OnHand(s)] EXCEPT ![r] = OnHand(r)']
    BY DEF Same
  <1> QED
    BY <1>1, <1>2, <1>3 DEF A!Show

LEMMA RepairStep ==
  ASSUME NEW r \in Report,
         \A s \in Report \ {r} : Same(s),
         ShownVersion(r)' = ShownVersion(r), ShownVersion(r) \in OnHand(r),
         OnHand(r)' = OnHand(r), ~IsDamaged(r)'
  PROVE  A!Repair(r)
  BY DEF A!Repair, Same

LEMMA DamageStep ==
  ASSUME NEW r \in Report,
         \A s \in Report \ {r} : Same(s),
         ShownVersion(r)' = ShownVersion(r), ShownVersion(r) # NoContent,
         OnHand(r)' = OnHand(r), IsDamaged(r)'
  PROVE  A!Damage(r)
  BY DEF A!Damage, Same

-----------------------------------------------------------------------------
(* The steps of a fetch.                                                   *)

LEMMA FetchRefines ==
  ASSUME IInv, NEW r \in Report, FetchStep(r)
  PROVE  A!Next \/ UNCHANGED A!archiveVars
  <1> USE ArchiveAssumption
      DEF ArchiveAssumption, IInv, TypeOK, Attempt, rowVars, intentVars, fileVars,
          localVars, envVars, Goto, Staged, IsLive
  <1>1. CASE Discover(r)
    <2>1. \A s \in Report \ {r} : Same(s)
      BY <1>1, FrameSame DEF Discover, Upserted, FrameOK
    <2>2. CASE UNCHANGED <<status, content>>
      BY <1>1, <2>1, <2>2, FrameSame, StutterStep DEF Discover, FrameOK
    <2>3. ASSUME NEW c \in Content, content' = [content EXCEPT ![r] = c]
          PROVE  A!Next
      <3>1. content[r] = NoContent
        BY <1>1 DEF Discover, FetchInv
      <3>2. OnHand(r)' = OnHand(r) \cup {c}
        BY <1>1, <2>3, <3>1 DEF Discover, OnHand
      <3>3. ShownVersion(r)' = ShownVersion(r) /\ IsDamaged(r)' = IsDamaged(r)
        BY <1>1 DEF Discover, Upserted, ShownVersion, IsDamaged, Served, CurrentReady, Intact
      <3> QED
        BY <2>1, <3>2, <3>3, DeliverStep DEF A!Next
    <2> QED
      BY <1>1, <2>2, <2>3 DEF Discover
  <1>2. CASE UpsertForRefresh(r) \/ UpsertAndLookup(r)
    <2>1. \A s \in Report \ {r} : Same(s)
      BY <1>2, FrameSame DEF UpsertForRefresh, UpsertAndLookup, FrameOK
    <2>2. Same(r)
      <3>1. Served(r)' = Served(r)
        BY <1>2 DEF UpsertForRefresh, UpsertAndLookup, Upserted, Served, CurrentReady
      <3>2. ShownVersion(r)' = ShownVersion(r) /\ IsDamaged(r)' = IsDamaged(r)
        BY <1>2, <3>1
        DEF UpsertForRefresh, UpsertAndLookup, ShownVersion, IsDamaged, Intact
      <3>3. OnHand(r)' = OnHand(r)
        <4>1. UNCHANGED <<intentVars, content>>
          BY <1>2 DEF UpsertForRefresh, UpsertAndLookup
        <4> QED
          BY <4>1 DEF OnHand
      <3> QED
        BY <3>2, <3>3 DEF Same
    <2> QED
      BY <2>1, <2>2, StutterStep
  <1>3. CASE UpsertAndMarkUnavailable(r)
    <2>1. \A s \in Report \ {r} : Same(s)
      BY <1>3, FrameSame DEF UpsertAndMarkUnavailable, FrameOK, Served, CurrentReady
    <2>2. ShownVersion(r) # NoContent /\ IsDamaged(r)
      BY <1>3 DEF UpsertAndMarkUnavailable, ShownVersion, IsDamaged, Served,
         CurrentReady
    <2>3. ~Served(r)'
      BY <1>3 DEF UpsertAndMarkUnavailable, Served, CurrentReady
    <2>4. OnHand(r)' = OnHand(r)
      BY <1>3 DEF UpsertAndMarkUnavailable, OnHand
    <2> QED
      BY <2>1, <2>2, <2>3, <2>4, WithdrawStep DEF A!Next, ShownVersion, IsDamaged
  <1>4. ASSUME NEW label \in FetchPc, Register(r, label)
        PROVE  UNCHANGED A!archiveVars
    <2>1. \A s \in Report : s # r => Same(s)
      BY <1>4, FrameSame DEF Register, FrameOK, FetchInv
    <2>2. Served(r)' = Served(r)
      BY <1>4 DEF Register, RegisteredStatus, Served, CurrentReady, ManifestAgrees
    <2>3. ShownVersion(r)' = ShownVersion(r) /\ IsDamaged(r)' = IsDamaged(r)
      BY <1>4, <2>2 DEF Register, ShownVersion, IsDamaged, Intact
    <2>4. OnHand(r)' = OnHand(r)
      BY <1>4 DEF Register, OnHand, FetchInv
    <2> QED
      BY <2>1, <2>3, <2>4, StutterStep DEF Same
  <1>5. CASE RegisterDownload(r) \/ SkipAtDeadline(r)
    BY <1>4, <1>5 DEF RegisterDownload, SkipAtDeadline, FetchPc
  <1>6. CASE Download(r)
    <2>1. PICK c \in Content : content' = [content EXCEPT ![r] = c]
      BY <1>6 DEF Download
    <2>2. \A s \in Report \ {r} : Same(s)
      BY <1>6, <2>1, FrameSame DEF Download, FrameOK
    <2>3. content[r] = NoContent
      BY <1>6 DEF Download, FetchInv
    <2>4. OnHand(r)' = OnHand(r) \cup {c}
      BY <1>6, <2>1, <2>3 DEF Download, OnHand
    <2>5. ShownVersion(r)' = ShownVersion(r) /\ IsDamaged(r)' = IsDamaged(r)
      BY <1>6 DEF Download, ShownVersion, IsDamaged, Served, CurrentReady, Intact
    <2> QED
      BY <2>2, <2>4, <2>5, DeliverStep DEF A!Next
  <1>7. CASE Stage(r)
    <2>1. PICK n \in Name :
             /\ target' = [target EXCEPT ![r] = n]
             /\ artName' = [artName EXCEPT ![r][content[r]] = n]
             /\ intentName' = [intentName EXCEPT ![attempt[r]] = n]
      BY <1>7 DEF Stage
    <2>2. \A s \in Report \ {r} : Same(s)
      BY <1>7, <2>1, FrameSame DEF Stage, FrameOK, FetchInv
    <2>3. content[r] \in OnHand(r) /\ OnHand(r)' = OnHand(r)
      BY <1>7 DEF Stage, OnHand, FetchInv
    <2>4. CASE Served(r) /\ current[r] = content[r]
      <3>1. ShownVersion(r) # NoContent /\ ShownVersion(r) \in OnHand(r)
        BY <2>3, <2>4 DEF ShownVersion, Served, CurrentReady
      <3>2. ~Served(r)'
        BY <1>7, <2>4 DEF Stage, StagedState, Served, CurrentReady
      <3> QED
        BY <2>2, <2>3, <3>1, <3>2, WithdrawStep DEF A!Next, ShownVersion, IsDamaged
    <2>5. CASE ~(Served(r) /\ current[r] = content[r])
      <3>1. Served(r)' = Served(r)
        BY <1>7, <2>5 DEF Stage, StagedState, Served, CurrentReady
      <3>2. Served(r) => Intact(r, current[r])' = Intact(r, current[r])
        BY <1>7, <2>1, <2>5 DEF Stage, Intact
      <3>3. Same(r)
        BY <1>7, <2>3, <3>1, <3>2 DEF Stage, Same, ShownVersion, IsDamaged
      <3> QED
        BY <2>2, <3>3, StutterStep
    <2> QED
      BY <2>4, <2>5
  <1>8. CASE Place(r)
    <2>1. \A s \in Report \ {r} : Same(s)
      BY <1>8, FrameSame DEF Place, PlacedDisk, FrameOK
    <2>2. ShownVersion(r)' = ShownVersion(r) /\ OnHand(r)' = OnHand(r)
      BY <1>8 DEF Place, PlacedDisk, ShownVersion, Served, CurrentReady, OnHand
    <2>3. CASE IsDamaged(r)' = IsDamaged(r)
      BY <2>1, <2>2, <2>3, StutterStep DEF Same
    <2>4. CASE IsDamaged(r)' # IsDamaged(r)
      <3>1. Served(r) /\ content[r] = current[r] /\ ~IsDamaged(r)'
        BY <1>8, <2>4 DEF Place, PlacedDisk, IsDamaged, Intact, Served, CurrentReady, FetchInv
      <3>2. ShownVersion(r) \in OnHand(r)
        BY <3>1 DEF ShownVersion, OnHand, Served, CurrentReady
      <3> QED
        BY <2>1, <2>2, <3>1, <3>2, RepairStep DEF A!Next
    <2> QED
      BY <2>3, <2>4
  <1>9. CASE Finalize(r)
    <2>1. \A s \in Report \ {r} : Same(s)
      BY <1>9, FrameSame DEF Finalize, Publish, FrameOK, FetchInv
    <2>2. content[r] \in Content /\ content[r] \in OnHand(r)
      BY <1>9 DEF Finalize, FetchInv, OnHand
    <2>3. ShownVersion(r)' = content[r]
      BY <1>9, <2>2 DEF Finalize, Publish, ShownVersion, Served, CurrentReady
    <2>4. OnHand(r)' \subseteq OnHand(r)
      BY <1>9 DEF Finalize, Publish, OnHand
    <2> QED
      BY <2>1, <2>2, <2>3, <2>4, ShowStep DEF A!Next
  <1>10. CASE ControlStep(r)
    <2>1. UNCHANGED <<rowVars, fileVars, localVars>>
      BY <1>10, ControlStepOnly
    <2>2. \A s \in Report : Same(s)
      BY <2>1, FrameSame DEF FrameOK
    <2> QED
      BY <2>2, StutterStep
  <1>11. CASE MarkFailed(r)
    <2>1. \A s \in Report \ {r} : Same(s)
      BY <1>11, FrameSame DEF MarkFailed, FailedIntents, FrameOK
    <2>2. ~Served(r) /\ ~Served(r)'
      BY <1>11 DEF MarkFailed, Served, CurrentReady
    <2>3. OnHand(r)' \subseteq OnHand(r)
      BY <1>11 DEF MarkFailed, FailedIntents, OnHand
    <2> QED
      BY <2>1, <2>2, <2>3, DropStep DEF A!Next, Same, ShownVersion, IsDamaged, IInv
  <1>12. CASE Close(r)
    <2>1. \A s \in Report \ {r} : Same(s)
      BY <1>12, FrameSame DEF Close, FrameOK
    <2>2. ShownVersion(r)' = ShownVersion(r) /\ IsDamaged(r)' = IsDamaged(r)
      BY <1>12 DEF Close, ShownVersion, IsDamaged, Served, CurrentReady, Intact
    <2>3. OnHand(r)' \subseteq OnHand(r)
      BY <1>12 DEF Close, OnHand
    <2> QED
      BY <2>1, <2>2, <2>3, DropStep DEF A!Next, Same
  <1>13. CASE Abort(r)
    <2>1. UNCHANGED <<rowVars, fileVars, content>>
      BY <1>13 DEF Abort
    <2>2. \A s \in Report : Same(s)
      BY <2>1, FrameSame DEF FrameOK
    <2> QED
      BY <2>2, StutterStep
  <1> QED
    BY <1>1, <1>2, <1>3, <1>5, <1>6, <1>7, <1>8, <1>9, <1>10, <1>11, <1>12, <1>13
       DEF FetchStep, ControlStep

-----------------------------------------------------------------------------
(* Crashes, recovery and damage.                                           *)

LEMMA CrashRefines ==
  ASSUME IInv, Crash
  PROVE  A!Drop
  <1>1. \A s \in Report : /\ ShownVersion(s)' = ShownVersion(s)
                          /\ IsDamaged(s)' = IsDamaged(s)
    BY DEF Crash, rowVars, fileVars, ShownVersion, IsDamaged, Served, CurrentReady,
       Intact
  <1>2. \A s \in Report : OnHand(s)' \subseteq OnHand(s)
    BY DEF Crash, rowVars, intentVars, OnHand, Staged
  <1> QED
    BY <1>1, <1>2, DropStep

LEMMA RecoverRefines ==
  ASSUME IInv, RecoverStep
  PROVE  A!Next \/ UNCHANGED A!archiveVars
  <1> USE ArchiveAssumption
      DEF ArchiveAssumption, IInv, TypeOK, Attempt, rowVars, intentVars, fileVars,
          localVars, envVars, Staged, IsLive
  <1>1. ASSUME NEW a \in Attempt, RecoverFinalize(a),
               NEW r \in Report, r = intentReport[a],
               NEW c \in Content, c = intentContent[a]
        PROVE  A!Next
    <2>1. \A s \in Report \ {r} : Same(s)
      BY <1>1, FrameSame DEF RecoverFinalize, Publish, FrameOK
    <2>2. c \in OnHand(r)
      BY <1>1 DEF RecoverFinalize, OnHand
    <2>3. ShownVersion(r)' = c
      BY <1>1 DEF RecoverFinalize, Publish, ShownVersion, Served, CurrentReady
    <2>4. OnHand(r)' \subseteq OnHand(r)
      BY <1>1 DEF RecoverFinalize, Publish, OnHand
    <2> QED
      BY <1>1, <2>1, <2>2, <2>3, <2>4, ShowStep DEF A!Next
  <1>2. ASSUME NEW a \in Attempt, RecoverRename(a),
               NEW r \in Report, r = intentReport[a],
               NEW c \in Content, c = intentContent[a]
        PROVE  A!Next \/ UNCHANGED A!archiveVars
    <2>1. c \in OnHand(r)
      BY <1>2 DEF RecoverRename, OnHand
    <2>2. \A s \in Report \ {r} : Same(s)
      BY <1>2, FrameSame DEF RecoverRename, FrameOK
    <2>3. ShownVersion(r)' = ShownVersion(r) /\ OnHand(r)' = OnHand(r)
      BY <1>2 DEF RecoverRename, ShownVersion, Served, CurrentReady, OnHand
    <2>4. CASE IsDamaged(r)' = IsDamaged(r)
      <3> QED
        BY <2>2, <2>3, <2>4, StutterStep DEF Same
    <2>5. CASE IsDamaged(r)' # IsDamaged(r)
      <3>1. Served(r) /\ c = current[r] /\ ~IsDamaged(r)'
        BY <1>2, <2>1, <2>5
        DEF RecoverRename, IntentInv, IsDamaged, Intact, Served, CurrentReady
      <3>2. ShownVersion(r) \in OnHand(r)
        BY <2>1, <3>1 DEF ShownVersion
      <3> QED
        BY <2>1, <2>2, <2>3, <3>1, <3>2, RepairStep DEF A!Next
    <2> QED
      BY <2>4, <2>5
  <1>3. ASSUME NEW a \in Attempt, RecoverAbandon(a)
        PROVE  A!Next
    <2>1. \A s \in Report : Served(s)' = Served(s)
      BY <1>3 DEF RecoverAbandon, AbandonedStatus, Oldest, Live, IntentInv, Served, CurrentReady
    <2>2. \A s \in Report : /\ ShownVersion(s)' = ShownVersion(s)
                            /\ IsDamaged(s)' = IsDamaged(s)
      BY <1>3, <2>1 DEF RecoverAbandon, ShownVersion, IsDamaged, Intact
    <2>3. \A s \in Report : OnHand(s)' \subseteq OnHand(s)
      BY <1>3 DEF RecoverAbandon, OnHand
    <2> QED
      BY <2>2, <2>3, DropStep DEF A!Next
  <1>4. CASE RecoverSweep
    <2>1. \A s \in Report : Same(s)
      BY <1>4, FrameSame DEF RecoverSweep, FrameOK
    <2> QED
      BY <2>1, StutterStep
  <1> QED
    BY <1>1, <1>2, <1>3, <1>4
       DEF RecoverStep, RecoverFinalize, RecoverRename, Oldest, Live, IntentInv

LEMMA TamperRefines ==
  ASSUME IInv, NEW r \in Report, NEW c \in Content, NEW n \in Name, Tamper(r, c, n)
  PROVE  A!Next \/ UNCHANGED A!archiveVars
  <1> USE ArchiveAssumption
      DEF ArchiveAssumption, IInv, TypeOK, rowVars, intentVars, localVars, Staged
  <1>1. \A s \in Report \ {r} : Same(s)
    BY FrameSame DEF Tamper, FrameOK
  <1>2. ShownVersion(r)' = ShownVersion(r) /\ OnHand(r)' = OnHand(r)
    BY DEF Tamper, ShownVersion, Served, CurrentReady, OnHand
  <1>3. CASE IsDamaged(r)' = IsDamaged(r)
    BY <1>1, <1>2, <1>3, StutterStep DEF Same
  <1>4. CASE IsDamaged(r)' # IsDamaged(r)
    <2>1. Served(r) /\ IsDamaged(r)'
      BY <1>4 DEF Tamper, IsDamaged, Intact, Served, CurrentReady
    <2> QED
      BY <1>1, <1>2, <2>1, DamageStep DEF A!Next, ShownVersion, Served, CurrentReady
  <1> QED
    BY <1>3, <1>4

-----------------------------------------------------------------------------
(* What requests see: every version's row and file, not only the one in    *)
(* show.                                                                   *)

ViewFile == [r \in Report |-> [c \in Content |-> FileSeen(r, c)]]

LEMMA SeenChange ==
  ASSUME NEW r \in Report, NEW c \in Content,
         \A s \in Report, d \in Content : s # r \/ d # c => FileSeen(s, d)' = FileSeen(s, d)
  PROVE  ViewFile' = [ViewFile EXCEPT ![r][c] = FileSeen(r, c)']
  BY DEF ViewFile

LEMMA SeenSame ==
  ASSUME UNCHANGED <<current, mode>>,
         \A s \in Report, d \in Content : FileSeen(s, d)' = FileSeen(s, d)
  PROVE  UNCHANGED View!viewVars
  BY DEF View!viewVars

LEMMA QuietView ==
  ASSUME UNCHANGED <<current, artState, artName, disk, mode>>
  PROVE  UNCHANGED View!viewVars
  BY SeenSame DEF FileSeen, Intact

LEMMA PublishView ==
  ASSUME IInv, NEW r \in Report, NEW c \in Content, NEW n \in Name, NEW a \in Attempt,
         Publish(r, c, n, a), UNCHANGED <<disk, mode>>
  PROVE  View!Next
  <1> USE DEF Publish, IInv, TypeOK
  <1>1. \A s \in Report, d \in Content : s # r \/ d # c => FileSeen(s, d)' = FileSeen(s, d)
    BY DEF FileSeen, Intact
  <1>2. artState'[r][c] = "ready"
    OBVIOUS
  <1>3. FileSeen(r, c)' \in {"good", "bad"}
    BY <1>2 DEF FileSeen
  <1>4. ViewFile' = [ViewFile EXCEPT ![r][c] = FileSeen(r, c)']
    BY <1>1, SeenChange
  <1>5. View!Publish(r, c)
    BY <1>3, <1>4 DEF View!Publish, ViewFile
  <1> QED
    BY <1>5 DEF View!Next, View!Change

LEMMA FetchViews ==
  ASSUME IInv, NEW r \in Report, FetchStep(r)
  PROVE  View!Next \/ UNCHANGED View!viewVars
  <1> USE DEF IInv, TypeOK
  <1>1. CASE \/ Discover(r) \/ UpsertForRefresh(r) \/ UpsertAndLookup(r)
             \/ RegisterDownload(r) \/ SkipAtDeadline(r) \/ Download(r)
             \/ ControlStep(r) \/ MarkFailed(r) \/ Abort(r) \/ Close(r)
    <2>1. UNCHANGED <<current, artState, artName, disk, mode>>
      BY <1>1, ControlStepOnly
      DEF Discover, UpsertForRefresh, UpsertAndLookup, RegisterDownload, SkipAtDeadline,
          Register, Download, MarkFailed, Abort, Close, rowVars, fileVars
    <2> QED
      BY <2>1, QuietView
  <1>2. CASE UpsertAndMarkUnavailable(r)
    <2> USE <1>2 DEF UpsertAndMarkUnavailable
    <2>0. PICK c \in Content : c = current[r]
      BY DEF Served, CurrentReady
    <2>1. /\ c # NoContent /\ FileSeen(r, c) = "bad"
          /\ FileSeen(r, c)' = "off"
      BY <2>0 DEF Served, CurrentReady, FileSeen
    <2>2. \A s \in Report, d \in Content : s # r \/ d # c => FileSeen(s, d)' = FileSeen(s, d)
      BY <2>0 DEF FileSeen, Intact, fileVars
    <2>3. ViewFile' = [ViewFile EXCEPT ![r][c] = FileSeen(r, c)']
      BY <2>2, SeenChange
    <2>4. \A d \in Content : FileSeen(r, d) # "off" <=> artState[r][d] = "ready"
      BY DEF FileSeen
    <2>5. current' = [current EXCEPT ![r] =
                        IF \E d \in Content \ {c} : FileSeen(r, d) # "off"
                        THEN c ELSE NoContent]
      BY <2>0, <2>4
    <2>6. View!WriteOff(r)
      BY <2>0, <2>1, <2>3, <2>5 DEF View!WriteOff, View!LeftCurrent, ViewFile
    <2> QED
      BY <2>6 DEF View!Next, View!Change
  <1>3. CASE Stage(r)
    <2>0. PICK c \in Content : c = content[r]
      BY <1>3 DEF Stage, FetchInv
    <2>1. PICK n \in Name : artName' = [artName EXCEPT ![r][c] = n]
      BY <1>3, <2>0 DEF Stage
    <2>2. /\ FileSeen(r, c)' = "off"
          /\ \A s \in Report, d \in Content : s # r \/ d # c => FileSeen(s, d)' = FileSeen(s, d)
          /\ UNCHANGED <<current, mode>> /\ mode = "up"
      BY <1>3, <2>0, <2>1 DEF Stage, StagedState, FileSeen, Intact, fileVars
    <2>3. CASE FileSeen(r, c) = "off"
      BY <2>2, <2>3, SeenSame
    <2>4. CASE FileSeen(r, c) # "off"
      <3>1. ViewFile' = [ViewFile EXCEPT ![r][c] = "off"]
        BY <2>2, SeenChange
      <3>2. View!Stage(r, c)
        BY <2>2, <2>4, <3>1 DEF View!Stage, ViewFile
      <3> QED
        BY <2>2, <3>2 DEF View!Next, View!Change
    <2> QED
      BY <2>3, <2>4
  <1>4. CASE Place(r)
    <2>1. content[r] \in Content /\ artState[r][content[r]] = "staged"
      BY <1>4 DEF Place, FetchInv
    <2>2. \A s \in Report, d \in Content : FileSeen(s, d)' = FileSeen(s, d)
      BY <1>4, <2>1 DEF Place, PlacedDisk, FileSeen, Intact, rowVars
    <2> QED
      BY <1>4, <2>2, SeenSame DEF Place, rowVars
  <1>5. CASE Finalize(r)
    BY <1>5, PublishView DEF Finalize, FetchInv, fileVars
  <1> QED
    BY <1>1, <1>2, <1>3, <1>4, <1>5 DEF FetchStep, ControlStep

LEMMA RecoverViews ==
  ASSUME IInv, RecoverStep
  PROVE  View!Next \/ UNCHANGED View!viewVars
  <1> USE DEF IInv, TypeOK, rowVars, fileVars
  <1>1. \A a \in Attempt : Staged(a) =>
          intentReport[a] \in Report /\ intentContent[a] \in Content /\ intentName[a] \in Name
    BY DEF IntentInv, IsLive, Staged
  <1>2. ASSUME NEW a \in Attempt, RecoverFinalize(a)
        PROVE  View!Next
    BY <1>1, <1>2, PublishView DEF RecoverFinalize
  <1>3. ASSUME NEW a \in Attempt, RecoverRename(a)
        PROVE  View!Next \/ UNCHANGED View!viewVars
    <2>0. PICK r \in Report, c \in Content, n \in Name :
             r = intentReport[a] /\ c = intentContent[a] /\ n = intentName[a]
      BY <1>1, <1>3 DEF RecoverRename
    <2>1. /\ mode # "up" /\ UNCHANGED <<current, mode, artState, artName>>
          /\ disk[r][c][n] # "good" /\ disk' = [disk EXCEPT ![r][c][n] = "good"]
      BY <1>3, <2>0 DEF RecoverRename, TargetGood
    <2>2. \A s \in Report, d \in Content : s # r \/ d # c => FileSeen(s, d)' = FileSeen(s, d)
      BY <2>1 DEF FileSeen, Intact
    <2>3. FileSeen(r, c)' = FileSeen(r, c) \/ (FileSeen(r, c) = "bad" /\ FileSeen(r, c)' = "good")
      BY <2>1 DEF FileSeen, Intact
    <2>4. CASE FileSeen(r, c)' = FileSeen(r, c)
      BY <2>1, <2>2, <2>4, SeenSame
    <2>5. CASE FileSeen(r, c) = "bad" /\ FileSeen(r, c)' = "good"
      <3>1. ViewFile' = [ViewFile EXCEPT ![r][c] = "good"]
        BY <2>1, <2>2, <2>5, SeenChange
      <3>2. View!Repair(r, c)
        BY <2>1, <2>5, <3>1 DEF View!Repair, ViewFile
      <3> QED
        BY <2>1, <3>2 DEF View!Next, View!Change
    <2> QED
      BY <2>3, <2>4, <2>5
  <1>4. ASSUME NEW a \in Attempt, RecoverAbandon(a)
        PROVE  UNCHANGED View!viewVars
    BY <1>4, QuietView DEF RecoverAbandon
  <1>5. CASE RecoverSweep
    <2>1. \A s \in Report, d \in Content : FileSeen(s, d)' = FileSeen(s, d)
      BY <1>5 DEF RecoverSweep, FileSeen, Intact
    <2>2. ViewFile' = ViewFile
      BY <2>1 DEF ViewFile
    <2>3. View!Reopen
      BY <1>5, <2>2 DEF RecoverSweep, View!Reopen, ViewFile
    <2> QED
      BY <2>3 DEF View!Next
  <1> QED
    BY <1>2, <1>3, <1>4, <1>5 DEF RecoverStep

LEMMA CrashViews ==
  ASSUME IInv, Crash
  PROVE  View!Next \/ UNCHANGED View!viewVars
  <1>1. UNCHANGED <<current, artState, artName, disk>> /\ mode' = "recovering"
    BY DEF Crash, rowVars, fileVars
  <1>2. ViewFile' = ViewFile
    BY <1>1 DEF ViewFile, FileSeen, Intact
  <1>3. CASE mode = "up"
    BY <1>1, <1>2, <1>3 DEF View!Next, View!Restart, ViewFile
  <1>4. CASE mode # "up"
    BY <1>1, <1>2, <1>4 DEF View!viewVars, ViewFile
  <1> QED
    BY <1>3, <1>4

LEMMA TamperViews ==
  ASSUME IInv, NEW r \in Report, NEW c \in Content, NEW n \in Name, Tamper(r, c, n)
  PROVE  View!Next \/ UNCHANGED View!viewVars
  <1> USE DEF Tamper, IInv, TypeOK, rowVars
  <1>1. \A s \in Report, d \in Content : s # r \/ d # c => FileSeen(s, d)' = FileSeen(s, d)
    BY DEF FileSeen, Intact
  <1>2. FileSeen(r, c)' = FileSeen(r, c) \/ (FileSeen(r, c) = "good" /\ FileSeen(r, c)' = "bad")
    BY DEF FileSeen, Intact
  <1>3. CASE FileSeen(r, c)' = FileSeen(r, c)
    BY <1>1, <1>3, SeenSame
  <1>4. CASE FileSeen(r, c) = "good" /\ FileSeen(r, c)' = "bad"
    <2>1. ViewFile' = [ViewFile EXCEPT ![r][c] = "bad"]
      BY <1>1, <1>4, SeenChange
    <2>2. View!Damage(r, c)
      BY <1>4, <2>1 DEF View!Damage, ViewFile
    <2> QED
      BY <2>2 DEF View!Next, View!Change
  <1> QED
    BY <1>2, <1>3, <1>4

-----------------------------------------------------------------------------
\* Whatever the downloads, failures, crashes, recovery scans and external
\* damage, what readers of the archive see is what Archive and ArchiveView
\* allow: a version comes from a verified delivery of its own report, one in
\* show is taken away only when it is damaged or delivered again, and any other
\* keeps its artifact until it is delivered again or written off (store.py,
\* core.py).
THEOREM Refinement == Spec => ImplementsArchive
  <1>1. Init => A!Init
    BY ArchiveAssumption
    DEF ArchiveAssumption, Init, A!Init, ShownVersion, IsDamaged, Served, OnHand, Staged
  <1>2. IInv /\ [Next]_vars => [A!Next]_(A!archiveVars)
    <2>1. SUFFICES ASSUME IInv, [Next]_vars
                   PROVE  A!Next \/ UNCHANGED A!archiveVars
      OBVIOUS
    <2>2. CASE UNCHANGED vars
      <3>1. \A s \in Report : Same(s)
        BY <2>2, FrameSame DEF vars, rowVars, intentVars, fileVars, localVars, FrameOK,
           Staged
      <3> QED
        BY <3>1, StutterStep
    <2>3. CASE Crash
      BY <2>1, <2>3, CrashRefines DEF A!Next
    <2> QED
      BY <2>1, <2>2, <2>3, FetchRefines, RecoverRefines, TamperRefines DEF Next
  <1>3. Init => View!Init
    BY DEF Init, View!Init, FileSeen
  <1>4. IInv /\ [Next]_vars => [View!Next]_(View!viewVars)
    <2>1. SUFFICES ASSUME IInv, [Next]_vars
                   PROVE  View!Next \/ UNCHANGED View!viewVars
      OBVIOUS
    <2>2. CASE UNCHANGED vars
      BY <2>2, QuietView DEF vars, rowVars, fileVars
    <2> QED
      BY <2>1, <2>2, FetchViews, RecoverViews, CrashViews, TamperViews DEF Next
  <1> QED
    BY <1>1, <1>2, <1>3, <1>4, Invariance, PTL DEF Spec, ImplementsArchive, A!Spec, View!Spec
=============================================================================
