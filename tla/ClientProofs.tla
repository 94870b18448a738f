---------------------------- MODULE ClientProofs ----------------------------
(***************************************************************************)
(* That a client's wait tells how its own job ended, and that the answer   *)
(* of report_file follows what was in show while it ran: for any number of *)
(* submissions, reports, contents and changes of the archive.              *)
(***************************************************************************)
EXTENDS ClientSession, FiniteSetTheorems, WellFoundedInduction, TLAPS

USE ReportAssumption, RequestAssumption, NoContentAssumption, LimitAssumption

-----------------------------------------------------------------------------
(* The invariant of a submission and its wait *)

Accepted == {k \in Key : accepted[k] # NoRequest}

OwnKey == CHOOSE own \in Key : TRUE

\* What the service keeps for each key.
BoardInv ==
    /\ accepted \in [Key -> Request \cup {NoRequest}]
    /\ outcome \in [Key -> {"pending"} \cup Board!Outcomes]
    /\ tries \in 0..MaxTry

\* The jobs come from the submissions of this client.
SubmitInv ==
    /\ job \subseteq Accepted
    /\ keyed => Accepted \subseteq {OwnKey}
    /\ ~keyed => IsFiniteSet(Accepted) /\ Cardinality(Accepted) <= tries

\* What the client was told of its job was true then and, if it is an end, is
\* true for good.
ToldInv ==
    /\ pc = "answered" => \E k \in job : Terminal(doc) => doc = outcome[k]
    /\ pc \notin {"submit", "sent", "poll", "polled", "answered", "gave up"} =>
          \E k \in job : Terminal(last) /\ last = outcome[k]

WaitInv == BoardInv /\ SubmitInv /\ ToldInv

-----------------------------------------------------------------------------
(* It is kept *)

\* Steps after the wait, and changes of the archive, leave all of it alone.
LEMMA LaterSteps ==
    ASSUME WaitInv,
           \/ ArchiveChanges \/ Restart \/ Reopen
           \/ FirstPage \/ NextPage \/ AskFile \/ LookUp \/ Open
    PROVE  WaitInv'
  <1>1. UNCHANGED <<accepted, outcome, tries, job, keyed, doc, last>>
    BY DEF ArchiveChanges, Restart, Changing, Reopen, FirstPage, NextPage, AskFile, LookUp, Open,
           jobs, submission, waiting
  <1>2. /\ pc' = "answered" => pc = "answered"
        /\ pc \in {"submit", "sent", "poll", "polled", "answered", "gave up"} => pc' = pc
    BY DEF ArchiveChanges, Restart, Reopen, FirstPage, NextPage, Page, AskFile, LookUp, Open
  <1> QED BY <1>1, <1>2 DEF WaitInv, BoardInv, SubmitInv, ToldInv, Accepted

\* A submission creates at most one job more, and none beside that of the
\* client's own key.
LEMMA SubmitKeeps ==
    ASSUME WaitInv, Submit
    PROVE  WaitInv'
  <1>1. /\ tries < MaxTry /\ tries' = tries + 1 /\ keyed' = keyed /\ pc = "submit"
        /\ pc' \in {"submit", "sent"}
    BY DEF Submit
  <1>2. PICK k \in Key :
          /\ KeyOf(k)
          /\ \/ /\ IF accepted[k] = NoRequest THEN Board!Accept(k, "q") ELSE UNCHANGED jobs
                /\ job' = {k} /\ pc' = "sent"
             \/ UNCHANGED <<jobs, job, pc>>
    BY DEF Submit
  <1>3. accepted' = [accepted EXCEPT ![k] = "q"] \/ accepted' = accepted
    BY <1>2 DEF Board!Accept, jobs
  <1>4. outcome' = outcome BY <1>2 DEF Board!Accept, jobs
  <1>5. accepted \in [Key -> Request \cup {NoRequest}] /\ "q" \in Request /\ "q" # NoRequest
    BY DEF WaitInv, BoardInv, Request
  <1>6. tries \in Nat /\ tries' \in 0..MaxTry BY <1>1 DEF WaitInv, BoardInv
  <1>7. BoardInv' BY <1>3, <1>4, <1>5, <1>6 DEF WaitInv, BoardInv
  <1>8. Accepted' \in {Accepted, Accepted \cup {k}} BY <1>3, <1>5 DEF Accepted
  <1>9. SubmitInv'
    <2>1. job' \subseteq Accepted'
      <3>1. CASE job' = {k} /\ (IF accepted[k] = NoRequest THEN Board!Accept(k, "q") ELSE UNCHANGED jobs)
        BY <1>5, <3>1 DEF Board!Accept, jobs, Accepted
      <3>2. CASE UNCHANGED <<jobs, job>>
        BY <3>2 DEF WaitInv, SubmitInv, jobs, Accepted
      <3> QED BY <1>2, <3>1, <3>2
    <2>2. keyed' => Accepted' \subseteq {OwnKey}
      BY <1>1, <1>2, <1>8 DEF WaitInv, SubmitInv, KeyOf, OwnKey
    <2>3. ASSUME ~keyed' PROVE IsFiniteSet(Accepted') /\ Cardinality(Accepted') <= tries'
      <3>1. IsFiniteSet(Accepted) /\ Cardinality(Accepted) <= tries
        BY <1>1, <2>3 DEF WaitInv, SubmitInv
      <3>2. Cardinality(Accepted) \in Nat BY <3>1, FS_CardinalityType
      <3>3. IsFiniteSet(Accepted \cup {k}) /\ Cardinality(Accepted \cup {k}) <= Cardinality(Accepted) + 1
        BY <3>1, <3>2, FS_AddElement
      <3>4. IsFiniteSet(Accepted \cup {k}) /\ Cardinality(Accepted \cup {k}) \in Nat
        BY <3>3, FS_CardinalityType
      <3> QED BY <1>1, <1>6, <1>8, <3>1, <3>2, <3>3, <3>4
    <2> QED BY <2>1, <2>2, <2>3 DEF SubmitInv
  <1>10. ToldInv' BY <1>1 DEF ToldInv
  <1> QED BY <1>7, <1>9, <1>10 DEF WaitInv

\* A job that ends does not unsay what the client was told.
LEMMA JobEndsKeeps ==
    ASSUME WaitInv, JobEnds
    PROVE  WaitInv'
  <1>1. PICK k \in Key, result \in Board!Outcomes : Board!End(k, result) BY DEF JobEnds
  <1>2. /\ outcome[k] = "pending" /\ outcome' = [outcome EXCEPT ![k] = result] /\ accepted' = accepted
        /\ UNCHANGED <<pc, tries, job, keyed, doc, last>>
    BY <1>1 DEF JobEnds, Board!End, Board!Pending, submission, waiting
  <1>3. BoardInv' BY <1>2 DEF WaitInv, BoardInv
  <1>4. SubmitInv' BY <1>2 DEF WaitInv, SubmitInv, Accepted
  <1>5. \A j \in Key : Terminal(outcome[j]) => outcome'[j] = outcome[j]
    BY <1>2 DEF WaitInv, BoardInv, Terminal, Board!Outcomes
  <1>6. job \subseteq Key BY DEF WaitInv, SubmitInv, Accepted
  <1>7. ToldInv' BY <1>2, <1>5, <1>6 DEF WaitInv, ToldInv, Terminal
  <1> QED BY <1>3, <1>4, <1>7 DEF WaitInv

\* The steps of the wait.
LEMMA WaitSteps ==
    ASSUME WaitInv, SubmitAnswered \/ Expire \/ Poll \/ Answer \/ PollFails \/ Receive
    PROVE  WaitInv'
  <1>1. UNCHANGED <<accepted, outcome, tries, keyed>> /\ job' \subseteq job
    BY DEF SubmitAnswered, Expire, Poll, Answer, PollFails, Receive, jobs, submission
  <1>2. BoardInv' BY <1>1 DEF WaitInv, BoardInv
  <1>3. SubmitInv' BY <1>1 DEF WaitInv, SubmitInv, Accepted
  <1>4. ToldInv'
    <2>1. CASE SubmitAnswered BY <2>1 DEF SubmitAnswered, ToldInv
    <2>2. CASE Expire BY <1>1, <2>2 DEF Expire, WaitInv, ToldInv, Terminal, submission
    <2>3. CASE Poll \/ PollFails BY <2>3 DEF Poll, PollFails, ToldInv
    <2>4. CASE Answer
      <3>1. pc' = "answered" /\ job' = job /\ \E k \in job : doc' = outcome[k]
        BY <2>4 DEF Answer, submission
      <3> QED BY <1>1, <3>1 DEF ToldInv
    <2>5. CASE Receive
      <3>1. /\ pc = "answered" /\ last' = doc /\ job' = job
            /\ pc' \in {"ended", "gave up", "poll"} /\ (pc' = "ended" => Terminal(doc))
        BY <2>5 DEF Receive, Ends, submission
      <3> QED BY <1>1, <3>1 DEF WaitInv, ToldInv, Terminal
    <2> QED BY <2>1, <2>2, <2>3, <2>4, <2>5
  <1> QED BY <1>2, <1>3, <1>4 DEF WaitInv

\* WaitInv is an invariant.
LEMMA WaitInvariance == Spec => []WaitInv
  <1>1. Init => WaitInv
    <2> SUFFICES ASSUME Init PROVE WaitInv OBVIOUS
    <2>1. Accepted = {} BY DEF Init, Board!Init, Accepted
    <2>2. BoardInv BY DEF Init, Board!Init, BoardInv
    <2>3. SubmitInv BY <2>1, FS_EmptySet DEF Init, SubmitInv
    <2>4. ToldInv BY DEF Init, ToldInv
    <2> QED BY <2>2, <2>3, <2>4 DEF WaitInv
  <1>2. WaitInv /\ [Next]_vars => WaitInv'
    <2> SUFFICES ASSUME WaitInv, [Next]_vars PROVE WaitInv' OBVIOUS
    <2>1. CASE UNCHANGED vars
      BY <2>1 DEF vars, jobs, submission, waiting, WaitInv, BoardInv, SubmitInv, ToldInv, Accepted, Terminal
    <2> QED BY <2>1, LaterSteps, SubmitKeeps, JobEndsKeeps, WaitSteps DEF Next, Client
  <1> QED BY <1>1, <1>2, PTL DEF Spec

\* wait_for_terminal tells the end of the client's own job, and a keyed client
\* has one job however often it submits.
THEOREM WaitIsTrue == Spec => []WaitTells
  <1>1. WaitInv => WaitTells
    <2> SUFFICES ASSUME WaitInv PROVE WaitTells OBVIOUS
    <2>1. Cardinality(Accepted) <= IF keyed THEN 1 ELSE tries
      <3>1. CASE keyed
        <4>1. IsFiniteSet({OwnKey}) /\ Cardinality({OwnKey}) = 1 BY FS_Singleton
        <4> QED BY <3>1, <4>1, FS_Subset DEF WaitInv, SubmitInv
      <3>2. CASE ~keyed BY <3>2 DEF WaitInv, SubmitInv
      <3> QED BY <3>1, <3>2
    <2>2. \A k \in job : accepted[k] # NoRequest BY DEF WaitInv, SubmitInv, Accepted
    <2> QED BY <2>1, <2>2 DEF WaitInv, ToldInv, WaitTells, Accepted
  <1> QED BY <1>1, WaitInvariance, PTL

-----------------------------------------------------------------------------
(* The invariant of a request for a file *)

\* What rows and artifacts say of each other.
StoreInv ==
    /\ current \in [Report -> Content \cup {NoContent}]
    /\ file \in [Report -> [Content -> Store!FileView]]
    /\ \A r \in Report : current[r] = NoContent => \A c \in Content : file[r][c] = "off"
    /\ up \in BOOLEAN

\* A file that would be sent now has been in show, whatever was looked up, and
\* if one good version was in show all the time, it is the one looked up.
LookInv ==
    pc = "looked up" =>
        /\ up /\ row \in Content /\ InShow \in shown
        /\ asked = NoContent =>
              /\ GoodFile => <<row, TRUE>> \in shown
              /\ \A c \in Content : shown = {<<c, TRUE>>} => row = c

ReplyInv == pc \in {"file", "looked up"} => reply = NoReply

AskedInv == asked \in Content \cup {NoContent}

FileInv == StoreInv /\ AskedInv /\ LookInv /\ ReplyInv /\ FileIsCurrent

\* The report that is read is one.
LEMMA SubjectIsOne == Subject \in Report
  <1> DEFINE Above(r) == {o \in Report : o > r}
             All == {Above(r) : r \in Report}
  <1>1. All \subseteq FiniteSubsetsOf(Report)
    <2> SUFFICES ASSUME NEW r \in Report PROVE Above(r) \in FiniteSubsetsOf(Report)
      OBVIOUS
    <2> QED BY FS_Subset DEF FiniteSubsetsOf
  <1>2. PICK U \in All : \A W \in All : <<W, U>> \notin StrictSubsetOrdering(Report)
    <2>1. All # {} OBVIOUS
    <2>2. IsWellFoundedOn(StrictSubsetOrdering(Report), FiniteSubsetsOf(Report))
      BY FS_StrictSubsetOrderingWellFounded
    <2> HIDE DEF All
    <2> QED BY <1>1, <2>1, <2>2, WFMin
  <1>3. PICK r \in Report : U = Above(r) OBVIOUS
  <1>4. \A q \in Report : r >= q
    <2> SUFFICES ASSUME NEW q \in Above(r) PROVE FALSE OBVIOUS
    <2>1. Above(q) \subseteq Above(r) /\ q \notin Above(q)
      <3>1. q \in Nat /\ r \in Nat /\ q > r OBVIOUS
      <3>2. ~(q > q) BY <3>1
      <3>3. \A o \in Report : o > q => o > r
        <4> SUFFICES ASSUME NEW o \in Report, o > q PROVE o > r OBVIOUS
        <4>1. o \in Nat OBVIOUS
        <4> QED BY <3>1, <4>1
      <3> QED BY <3>2, <3>3
    <2>2. <<Above(q), Above(r)>> \in StrictSubsetOrdering(Report)
      BY <2>1 DEF StrictSubsetOrdering
    <2> QED BY <1>2, <1>3, <2>2
  <1> QED BY <1>4 DEF Subject, Max

\* Every change of the archive keeps rows and artifacts together.
LEMMA ChangeKeepsStore ==
    ASSUME StoreInv, Store!Change \/ Store!Restart \/ Store!Reopen
    PROVE  StoreInv'
  <1> USE DEF StoreInv, Store!FileView
  <1>1. ASSUME NEW r \in Report, Store!WriteOff(r)
        PROVE  StoreInv'
    BY <1>1 DEF Store!WriteOff, Store!LeftCurrent
  <1>2. ASSUME NEW r \in Report, NEW c \in Content,
               Store!Publish(r, c) \/ Store!Stage(r, c) \/ Store!Damage(r, c) \/ Store!Repair(r, c)
        PROVE  StoreInv'
    BY <1>2 DEF Store!Publish, Store!Stage, Store!Damage, Store!Repair
  <1>3. CASE Store!Restart \/ Store!Reopen
    BY <1>3 DEF Store!Restart, Store!Reopen
  <1> QED BY <1>1, <1>2, <1>3 DEF Store!Change

\* What is in show, and whether its file is good.
LEMMA ShowIsGood ==
    ASSUME NEW c \in Content, current[Subject] = c, file[Subject][c] = "good"
    PROVE  InShow = <<c, TRUE>>
  <1>1. Store!Served(Subject) BY DEF Store!Served
  <1>2. (file[Subject][current[Subject]] = "good") = TRUE OBVIOUS
  <1> QED BY <1>1, <1>2 DEF InShow

LEMMA GoodIsShown ==
    ASSUME NEW c \in Content, InShow = <<c, TRUE>>
    PROVE  current[Subject] = c /\ file[Subject][c] = "good"
  <1>1. Store!Served(Subject) BY DEF InShow
  <1>2. c = current[Subject] /\ (file[Subject][current[Subject]] = "good") = TRUE
    BY <1>1 DEF InShow
  <1> QED BY <1>2

\* While the process is up, a file becomes good only when its version is put in
\* show.
LEMMA GoodBySeen ==
    ASSUME StoreInv, up, Store!Change, NEW c \in Content,
           file'[Subject][c] = "good", file[Subject][c] # "good"
    PROVE  InShow' = <<c, TRUE>>
  <1> USE DEF StoreInv
  <1>1. Subject \in Report BY SubjectIsOne
  <1>2. ASSUME NEW r \in Report, NEW d \in Content, Store!Publish(r, d)
        PROVE  InShow' = <<c, TRUE>>
    <2>1. r = Subject /\ d = c BY <1>1, <1>2 DEF Store!Publish
    <2>2. current'[Subject] = c BY <1>1, <1>2, <2>1 DEF Store!Publish
    <2>3. Store!Served(Subject)' BY <2>2 DEF Store!Served
    <2>4. (file'[Subject][current'[Subject]] = "good") = TRUE BY <2>2
    <2> QED BY <2>2, <2>3, <2>4 DEF InShow
  <1>3. ASSUME NEW r \in Report, NEW d \in Content,
               Store!Stage(r, d) \/ Store!Damage(r, d) \/ Store!Repair(r, d)
        PROVE  FALSE
    <2>1. PICK f \in {"off", "bad"} : file' = [file EXCEPT ![r][d] = f]
      BY <1>3 DEF Store!Stage, Store!Damage, Store!Repair
    <2>2. CASE r = Subject /\ d = c
      <3>1. file'[Subject][c] = f BY <1>1, <2>1, <2>2
      <3> QED BY <3>1
    <2>3. CASE ~(r = Subject /\ d = c)
      <3>1. file'[Subject][c] = file[Subject][c] BY <1>1, <2>1, <2>3
      <3> QED BY <3>1
    <2> QED BY <2>2, <2>3
  <1>4. ASSUME NEW r \in Report, Store!WriteOff(r)
        PROVE  FALSE
    BY <1>1, <1>4 DEF Store!WriteOff
  <1> QED BY <1>2, <1>3, <1>4 DEF Store!Change

\* FileIsCurrent is about these variables only.
LEMMA FileFrame ==
    ASSUME FileIsCurrent, UNCHANGED <<asked, reply, shown>>
    PROVE  FileIsCurrent'
  BY DEF FileIsCurrent, EtagShown, SteadyAnswered

\* Without an answer there is nothing to hold against it.
LEMMA Unanswered ==
    ASSUME reply = NoReply
    PROVE  FileIsCurrent
  <1>1. reply.status = 0 /\ reply.etag = NoContent BY DEF NoReply
  <1> QED BY <1>1 DEF FileIsCurrent, EtagShown, SteadyAnswered

\* The archive changes while a request is on its way.
LEMMA ChangeKeepsFile ==
    ASSUME FileInv, ArchiveChanges
    PROVE  FileInv'
  <1>1. Store!Change /\ StoreInv BY DEF ArchiveChanges, FileInv
  <1>2. /\ UNCHANGED <<pc, asked, row, reply>>
        /\ shown' = IF pc = "looked up" THEN shown \cup {InShow'} ELSE shown
    BY DEF ArchiveChanges, Changing, Watched
  <1>3. StoreInv' /\ AskedInv' BY <1>1, <1>2, ChangeKeepsStore DEF FileInv, AskedInv
  <1>4. ReplyInv' BY <1>2 DEF FileInv, ReplyInv
  <1>5. CASE pc = "looked up"
    <2>1. shown' = shown \cup {InShow'} BY <1>2, <1>5
    <2>2. /\ up /\ row \in Content /\ InShow \in shown
          /\ asked = NoContent =>
                /\ GoodFile => <<row, TRUE>> \in shown
                /\ \A c \in Content : shown = {<<c, TRUE>>} => row = c
      BY <1>5 DEF FileInv, LookInv
    <2>3. up'
      BY <1>1, <2>2 DEF Store!Change, Store!WriteOff, Store!Publish, Store!Stage, Store!Damage,
                        Store!Repair
    <2>4. asked = NoContent /\ GoodFile' => <<row, TRUE>> \in shown'
      <3>1. CASE GoodFile BY <2>1, <2>2, <3>1
      <3>2. CASE ~GoodFile /\ GoodFile'
        <4>1. file'[Subject][row] = "good" /\ file[Subject][row] # "good"
          BY <1>2, <3>2 DEF GoodFile
        <4>2. InShow' = <<row, TRUE>> BY <1>1, <2>2, <4>1, GoodBySeen
        <4> QED BY <2>1, <4>2
      <3> QED BY <3>1, <3>2
    <2>5. ASSUME asked = NoContent, NEW c \in Content, shown' = {<<c, TRUE>>}
          PROVE  row = c
      <3>1. shown = {<<c, TRUE>>} BY <2>1, <2>2, <2>5
      <3> QED BY <2>2, <2>5, <3>1
    <2>6. InShow' \in shown' BY <2>1
    <2>7. LookInv'
      <3> HIDE DEF InShow, GoodFile
      <3> QED BY <1>2, <2>2, <2>3, <2>4, <2>5, <2>6 DEF LookInv
    <2>8. reply' = NoReply BY <1>2, <1>5 DEF FileInv, ReplyInv
    <2>9. FileIsCurrent'
      <3>1. reply'.status = 0 /\ reply'.etag = NoContent BY <2>8 DEF NoReply
      <3> QED BY <3>1 DEF FileIsCurrent, EtagShown, SteadyAnswered
    <2> QED BY <1>3, <1>4, <2>7, <2>9 DEF FileInv
  <1>6. CASE pc # "looked up"
    <2>1. UNCHANGED <<asked, reply, shown>> /\ pc' # "looked up" BY <1>2, <1>6
    <2>2. FileIsCurrent' BY <2>1, FileFrame DEF FileInv
    <2> QED BY <1>3, <1>4, <2>1, <2>2 DEF FileInv, LookInv
  <1> QED BY <1>5, <1>6

\* The process dies and comes back.
LEMMA RestartKeepsFile ==
    ASSUME FileInv, Restart \/ Reopen
    PROVE  FileInv'
  <1>1. UNCHANGED <<asked, row, reply, shown>> BY DEF Restart, Changing, Reopen, reading
  <1>2. StoreInv' BY ChangeKeepsStore DEF FileInv, Restart, Reopen
  <1>3. pc' # "looked up" /\ (pc' = "file" => pc = "file")
    BY DEF Restart, Reopen, Store!Reopen, FileInv, LookInv
  <1>4. FileIsCurrent' BY <1>1, FileFrame DEF FileInv
  <1> QED BY <1>1, <1>2, <1>3, <1>4 DEF FileInv, AskedInv, LookInv, ReplyInv

\* The other steps of the client and the service.
LEMMA OtherStepsKeepFile ==
    ASSUME FileInv,
           \/ JobEnds \/ Submit \/ SubmitAnswered \/ Expire \/ Poll \/ Answer \/ PollFails \/ Receive
           \/ FirstPage \/ NextPage
    PROVE  FileInv'
  <1>1. UNCHANGED <<current, file, up>> /\ UNCHANGED <<asked, row, reply, shown>>
    BY DEF JobEnds, Submit, SubmitAnswered, Expire, Poll, Answer, PollFails, Receive, FirstPage, NextPage,
           archive, reading
  <1>2. pc' \in {"file", "looked up"} => pc' = pc
    BY DEF JobEnds, Submit, SubmitAnswered, Expire, Poll, Answer, PollFails, Receive, FirstPage, NextPage,
           Page, submission, waiting
  <1>3. StoreInv' /\ AskedInv' BY <1>1 DEF FileInv, StoreInv, AskedInv
  <1>4. LookInv' BY <1>1, <1>2 DEF FileInv, LookInv, InShow, GoodFile, Store!Served
  <1>5. ReplyInv' BY <1>1, <1>2 DEF FileInv, ReplyInv
  <1>6. FileIsCurrent' BY <1>1, FileFrame DEF FileInv
  <1> QED BY <1>3, <1>4, <1>5, <1>6 DEF FileInv

\* The reads of report_file.
LEMMA FileSteps ==
    ASSUME FileInv, AskFile \/ LookUp \/ Open
    PROVE  FileInv'
  <1>1. UNCHANGED <<current, file, up>> BY DEF AskFile, LookUp, Open, archive
  <1>2. StoreInv' /\ AskedInv'
    <2>1. StoreInv' BY <1>1 DEF FileInv, StoreInv
    <2>2. AskedInv' BY DEF FileInv, AskedInv, AskFile, LookUp, Open
    <2> QED BY <2>1, <2>2
  <1>3. Subject \in Report /\ StoreInv BY SubjectIsOne DEF FileInv
  <1>4. InShow' = InShow BY <1>1 DEF InShow, Store!Served
  <1>5. /\ NoReply.status = 0 /\ NoReply.etag = NoContent
        /\ Refusal.status = 409 /\ Refusal.etag = NoContent
    BY DEF NoReply, Refusal
  <1>6. CASE AskFile
    <2>1. reply' = NoReply /\ pc' = "file" BY <1>6 DEF AskFile
    <2>2. FileIsCurrent' BY <1>5, <2>1 DEF FileIsCurrent, EtagShown, SteadyAnswered
    <2> QED BY <1>2, <2>1, <2>2 DEF FileInv, LookInv, ReplyInv
  <1>7. CASE LookUp
    <2>1. /\ row' = (IF asked # NoContent THEN asked ELSE current[Subject]) /\ asked' = asked
          /\ shown' = {InShow} /\ up /\ pc = "file"
          /\ IF row' = NoContent THEN reply' = Refusal /\ pc' = "read"
             ELSE pc' = "looked up" /\ reply' = reply
      BY <1>7 DEF LookUp, CurrentRow
    <2>2. CASE row' = NoContent
      <3>1. asked = NoContent /\ current[Subject] = NoContent /\ reply' = Refusal /\ pc' = "read"
        BY <2>1, <2>2
      <3>2. ~Store!Served(Subject) BY <3>1 DEF Store!Served
      <3>3. InShow = <<NoContent, FALSE>> BY <3>2 DEF InShow
      <3>4. \A c \in Content : shown' # {<<c, TRUE>>}
        <4>1. \A c \in Content : <<NoContent, FALSE>> # <<c, TRUE>> OBVIOUS
        <4>2. <<NoContent, FALSE>> \in shown' BY <2>1, <3>3
        <4> QED BY <4>1, <4>2
      <3>5. FileIsCurrent' BY <1>5, <3>1, <3>4 DEF FileIsCurrent, EtagShown, SteadyAnswered
      <3> QED BY <1>2, <3>1, <3>5 DEF FileInv, LookInv, ReplyInv
    <2>3. CASE row' # NoContent
      <3>1. pc' = "looked up" /\ reply' = NoReply /\ up'
        BY <1>1, <2>1, <2>3 DEF FileInv, ReplyInv
      <3>2. row' \in Content
        BY <1>3, <2>1, <2>3 DEF FileInv, AskedInv, StoreInv
      <3>3. asked = NoContent => row' = current[Subject] BY <2>1
      <3>4. ASSUME asked = NoContent, GoodFile'
            PROVE  <<row', TRUE>> \in shown'
        <4>1. file[Subject][row'] = "good" BY <1>1, <3>4 DEF GoodFile
        <4>2. InShow = <<row', TRUE>> BY <3>2, <3>3, <3>4, <4>1, ShowIsGood
        <4> QED BY <2>1, <4>2
      <3>5. ASSUME asked = NoContent, NEW c \in Content, shown' = {<<c, TRUE>>}
            PROVE  row' = c
        <4>1. InShow = <<c, TRUE>> BY <2>1, <3>5
        <4> QED BY <3>3, <3>5, <4>1, GoodIsShown
      <3>6. InShow' \in shown' BY <1>4, <2>1
      <3>7. LookInv'
        <4> HIDE DEF InShow, GoodFile
        <4> QED BY <2>1, <3>1, <3>2, <3>4, <3>5, <3>6 DEF LookInv
      <3>8. FileIsCurrent' BY <1>5, <3>1 DEF FileIsCurrent, EtagShown, SteadyAnswered
      <3> QED BY <1>2, <3>1, <3>7, <3>8 DEF FileInv, ReplyInv
    <2> QED BY <2>2, <2>3
  <1>8. CASE Open
    <2>1. UNCHANGED <<asked, row, shown>> /\ pc = "looked up" /\ pc' = "read"
      BY <1>8 DEF Open
    <2>2. LookInv' /\ ReplyInv' BY <2>1 DEF LookInv, ReplyInv
    <2>3. /\ row \in Content /\ InShow \in shown
          /\ asked = NoContent =>
                /\ GoodFile => <<row, TRUE>> \in shown
                /\ \A c \in Content : shown = {<<c, TRUE>>} => row = c
      BY <2>1 DEF FileInv, LookInv
    <2>4. CASE ~GoodFile /\ reply' = Refusal
      <3>1. ASSUME asked = NoContent, NEW c \in Content, shown = {<<c, TRUE>>}
            PROVE  FALSE
        <4>1. row = c /\ InShow = <<c, TRUE>> BY <2>3, <3>1
        <4>2. file[Subject][c] = "good" BY <4>1, GoodIsShown
        <4> QED BY <2>4, <4>1, <4>2 DEF GoodFile
      <3>2. FileIsCurrent' BY <1>5, <2>1, <2>4, <3>1 DEF FileIsCurrent, EtagShown, SteadyAnswered
      <3> QED BY <1>2, <2>2, <3>2 DEF FileInv
    <2>5. ASSUME GoodFile, NEW status \in {200, 304}, reply' = [status |-> status, etag |-> row]
          PROVE  FileInv'
      <3>1. reply'.etag = row BY <2>5
      <3>2. FileIsCurrent' BY <2>1, <2>3, <2>5, <3>1 DEF FileIsCurrent, EtagShown, SteadyAnswered
      <3> QED BY <1>2, <2>2, <3>2 DEF FileInv
    <2> QED BY <1>8, <2>4, <2>5 DEF Open
  <1> QED BY <1>6, <1>7, <1>8

\* FileInv is an invariant.
LEMMA FileInvariance == Spec => []FileInv
  <1>1. Init => FileInv
    <2> SUFFICES ASSUME Init PROVE FileInv OBVIOUS
    <2>1. StoreInv BY DEF Init, Archived, StoreInv, Store!FileView
    <2>2. AskedInv /\ LookInv /\ ReplyInv BY DEF Init, AskedInv, LookInv, ReplyInv
    <2>3. FileIsCurrent BY Unanswered DEF Init
    <2> QED BY <2>1, <2>2, <2>3 DEF FileInv
  <1>2. FileInv /\ [Next]_vars => FileInv'
    <2> SUFFICES ASSUME FileInv, [Next]_vars PROVE FileInv' OBVIOUS
    <2>1. CASE UNCHANGED vars
      <3>1. UNCHANGED <<current, file, up, pc, asked, row, reply, shown>>
        BY <2>1 DEF vars, archive, reading
      <3>2. FileIsCurrent' BY <3>1, FileFrame DEF FileInv
      <3> QED
        BY <3>1, <3>2
        DEF FileInv, StoreInv, AskedInv, LookInv, ReplyInv, InShow, GoodFile, Store!Served
    <2> QED BY <2>1, ChangeKeepsFile, RestartKeepsFile, OtherStepsKeepFile, FileSteps DEF Next, Client
  <1> QED BY <1>1, <1>2, PTL DEF Spec

\* An answer of report_file is about a version that was in show, undamaged, while
\* it ran, and a version that was so all the time is its answer: whatever is
\* published, delivered again, written off and damaged in between, superseded
\* versions included, and whenever the process dies.
THEOREM FileIsExplained == Spec => []FileIsCurrent
  <1>1. FileInv => FileIsCurrent BY DEF FileInv
  <1> QED BY <1>1, FileInvariance, PTL

-----------------------------------------------------------------------------
(* The pages of the report list *)

\* The newer a row of a set, the fewer rows are newer.
LEMMA NewerCounts ==
    ASSUME NEW set, IsFiniteSet(set), set \subseteq Nat
    PROVE  /\ Cardinality(set) \in Nat
           /\ \A r \in set : Newer(r, set) \in Nat /\ Newer(r, set) < Cardinality(set)
           /\ \A r, s \in set : r < s => Newer(s, set) < Newer(r, set)
  <1> DEFINE Above(r) == {s \in set : s > r}
  <1>0. Cardinality(set) \in Nat BY FS_CardinalityType
  <1>1. ASSUME NEW r \in set
        PROVE  /\ IsFiniteSet(Above(r)) /\ Cardinality(Above(r)) \in Nat
               /\ Cardinality(Above(r)) < Cardinality(set)
    <2>1. Above(r) \subseteq set /\ Above(r) # set
      <3>1. ~(r > r) OBVIOUS
      <3> QED BY <3>1
    <2> QED BY <1>0, <2>1, FS_Subset, FS_CardinalityType
  <1>2. ASSUME NEW r \in set, NEW s \in set, r < s
        PROVE  Cardinality(Above(s)) < Cardinality(Above(r))
    <2>1. s \in Above(r) /\ s \notin Above(s) BY <1>2
    <2>2. \A t \in Above(s) : t \in Nat /\ t \in Above(r) BY <1>2
    <2>3. Above(s) \subseteq Above(r) /\ Above(s) # Above(r) BY <2>1, <2>2
    <2> QED BY <1>1, <2>3, FS_Subset
  <1> QED BY <1>0, <1>1, <1>2 DEF Newer

\* ORDER BY gives each row of a set once, the newest first.
LEMMA DescendingSorted ==
    ASSUME NEW set, IsFiniteSet(set), set \subseteq Nat
    PROVE  /\ Descending(set) \in Seq(set) /\ Len(Descending(set)) = Cardinality(set)
           /\ Cardinality(set) \in Nat
           /\ \A n \in 1..Cardinality(set) : Newer(Descending(set)[n], set) = n - 1
           /\ \A i, j \in 1..Cardinality(set) : i < j => Descending(set)[i] > Descending(set)[j]
           /\ \A r \in set : \E n \in 1..Cardinality(set) : Descending(set)[n] = r
  <1> DEFINE card == Cardinality(set)
             place == [r \in set |-> Newer(r, set) + 1]
  <1>1. /\ card \in Nat
        /\ \A r \in set : Newer(r, set) \in Nat /\ Newer(r, set) < card
        /\ \A r, s \in set : r < s => Newer(s, set) < Newer(r, set)
    BY NewerCounts
  <1> HIDE DEF card
  <1>2. ASSUME NEW r \in set, NEW s \in set, Newer(r, set) = Newer(s, set)
        PROVE  r = s
    <2>1. ~(r < s) /\ ~(s < r) BY <1>1, <1>2
    <2> QED BY <2>1
  <1>3. place \in Surjection(set, 1..card)
    <2>1. place \in [set -> 1..card] BY <1>1
    <2>2. \A r, s \in set : place[r] = place[s] => r = s BY <1>1, <1>2
    <2>3. place \in Injection(set, 1..card) BY <2>1, <2>2 DEF Injection, IsInjective
    <2>4. IsFiniteSet(1..card) /\ Cardinality(1..card) = card
      BY <1>1, FS_Interval
    <2> QED BY <2>3, <2>4, FS_Injection DEF card
  <1>4. ASSUME NEW n \in 1..card
        PROVE  Descending(set)[n] \in set /\ Newer(Descending(set)[n], set) = n - 1
    <2>1. PICK r \in set : place[r] = n BY <1>3 DEF Surjection
    <2>2. Newer(r, set) = n - 1 BY <1>1, <2>1
    <2>3. Descending(set)[n] = CHOOSE q \in set : Newer(q, set) = n - 1
      BY DEF Descending, card
    <2> QED BY <2>2, <2>3
  <1>5. Descending(set) \in Seq(set) /\ Len(Descending(set)) = card
    <2>1. Descending(set) = [n \in 1..card |-> Descending(set)[n]] BY DEF Descending, card
    <2> QED BY <1>1, <1>4, <2>1
  <1>6. ASSUME NEW i \in 1..card, NEW j \in 1..card, i < j
        PROVE  Descending(set)[i] > Descending(set)[j]
    <2> DEFINE r == Descending(set)[i]
               s == Descending(set)[j]
    <2>1. r \in set /\ s \in set /\ Newer(r, set) = i - 1 /\ Newer(s, set) = j - 1 BY <1>4
    <2>2. Newer(r, set) < Newer(s, set) BY <1>1, <1>6, <2>1
    <2> HIDE DEF r, s
    <2>3. ~(r < s) /\ r # s BY <1>1, <2>1, <2>2
    <2>4. r > s BY <2>1, <2>3
    <2> QED BY <2>4 DEF r, s
  <1>7. ASSUME NEW r \in set
        PROVE  \E n \in 1..card : Descending(set)[n] = r
    <2>1. Newer(r, set) + 1 \in 1..card /\ (Newer(r, set) + 1) - 1 = Newer(r, set) BY <1>1
    <2>2. Descending(set)[Newer(r, set) + 1] = r BY <1>2, <1>4, <2>1
    <2> QED BY <2>1, <2>2
  <1> QED BY <1>1, <1>4, <1>5, <1>6, <1>7 DEF card

\* A page holds the newest rows; if rows are left, they are below its last one,
\* which the cursor names.
LEMMA PageIsNewest ==
    ASSUME NEW rows, IsFiniteSet(rows), rows \subseteq Nat
    PROVE  LET page == {r \in rows : Newer(r, rows) < Limit}
           IN rows # page =>
                /\ Min(page) \in page /\ Min(page) > 0
                /\ \A r \in page : r >= Min(page)
                /\ \A r \in rows : r >= Min(page) => r \in page
  <1> DEFINE page == {r \in rows : Newer(r, rows) < Limit}
  <1> SUFFICES ASSUME rows # page
               PROVE  /\ Min(page) \in page /\ Min(page) > 0
                      /\ \A r \in page : r >= Min(page)
                      /\ \A r \in rows : r >= Min(page) => r \in page
    OBVIOUS
  <1>1. /\ \A r \in rows : Newer(r, rows) \in Nat
        /\ \A r, s \in rows : r < s => Newer(s, rows) < Newer(r, rows)
    BY NewerCounts
  <1>2. ASSUME NEW r \in rows, r \notin page, NEW p \in page
        PROVE  p > r
    <2>1. p \in rows /\ Newer(p, rows) < Limit /\ ~(Newer(r, rows) < Limit) BY <1>2
    <2>2. ~(p < r) /\ p # r BY <1>1, <2>1
    <2> QED BY <2>1, <2>2
  <1>3. PICK left \in rows : left \notin page OBVIOUS
  <1>4. page \subseteq Nat /\ IsFiniteSet(page) /\ page # {}
    <2>1. /\ Cardinality(rows) \in Nat /\ Descending(rows) \in Seq(rows)
          /\ Len(Descending(rows)) = Cardinality(rows)
          /\ \A n \in 1..Cardinality(rows) : Newer(Descending(rows)[n], rows) = n - 1
      BY DescendingSorted
    <2>2. Cardinality(rows) # 0 BY <1>3, FS_EmptySet
    <2>3. 1 \in 1..Cardinality(rows) /\ 1 - 1 = 0 BY <2>1, <2>2
    <2>4. Descending(rows)[1] \in rows BY <2>1, <2>3
    <2>5. Newer(Descending(rows)[1], rows) = 0 BY <2>1, <2>3
    <2>6. Descending(rows)[1] \in page BY <2>4, <2>5
    <2> QED BY <2>6, FS_Subset
  <1> HIDE DEF page
  <1>5. PICK low \in page : \A r \in page : low <= r
    <2> DEFINE n == Cardinality(page)
    <2>1. /\ n \in Nat /\ Descending(page) \in Seq(page) /\ Len(Descending(page)) = n
          /\ \A i, j \in 1..n : i < j => Descending(page)[i] > Descending(page)[j]
          /\ \A r \in page : \E i \in 1..n : Descending(page)[i] = r
      BY <1>4, DescendingSorted
    <2>2. n # 0 BY <1>4, FS_EmptySet
    <2> HIDE DEF n
    <2>3. n \in 1..n BY <2>1, <2>2
    <2> DEFINE least == Descending(page)[n]
    <2>4. least \in page BY <2>1, <2>3
    <2>5. ASSUME NEW r \in page
          PROVE  least <= r
      <3>1. PICK i \in 1..n : Descending(page)[i] = r BY <2>1
      <3>2. i = n \/ i < n BY <2>1
      <3>3. r = least \/ r > least BY <2>1, <2>3, <3>1, <3>2
      <3>4. r \in Nat /\ least \in Nat BY <1>4, <2>4
      <3> QED BY <3>3, <3>4
    <2> QED BY <2>4, <2>5
  <1>6. Min(page) \in page /\ \A r \in page : Min(page) <= r
    BY <1>5 DEF Min
  <1>7. Min(page) > left /\ left \in Nat /\ Min(page) \in Nat BY <1>2, <1>3, <1>4, <1>6
  <1>8. ASSUME NEW r \in rows, r >= Min(page)
        PROVE  r \in page
    <2> SUFFICES ASSUME r \notin page PROVE FALSE OBVIOUS
    <2>1. Min(page) > r BY <1>2, <1>6
    <2> QED BY <1>7, <1>8, <2>1
  <1> QED BY <1>4, <1>6, <1>7, <1>8 DEF page

\* The pages read so far go down to the cursor and hold all steady reports
\* above it.
PageInv ==
    /\ got \in Seq(Report) /\ cursor \in Nat /\ steady \subseteq Report
    /\ \A r \in steady : Store!Served(r)
    /\ \A i, j \in DOMAIN got : i < j => got[i] > got[j]
    /\ pc \in {"list", "listed"} => \A r \in steady : r >= cursor => r \in ToSet(got)
    /\ pc = "listed" => cursor = 0
    /\ pc = "list" => cursor > 0 /\ \A i \in DOMAIN got : got[i] >= cursor

\* Sequences of rows, and one after the other.
LEMMA WiderSeq ==
    ASSUME NEW few, NEW many, few \subseteq many, NEW s \in Seq(few)
    PROVE  s \in Seq(many)
  <1>1. Len(s) \in Nat /\ s = [i \in 1..Len(s) |-> s[i]] /\ \A i \in 1..Len(s) : s[i] \in many
    OBVIOUS
  <1> QED BY <1>1

LEMMA RowsOf ==
    ASSUME NEW s \in Seq(Report)
    PROVE  DOMAIN s = 1..Len(s) /\ \A i \in DOMAIN s : s[i] \in Report /\ s[i] \in Nat
  <1>1. DOMAIN s = 1..Len(s) /\ \A i \in DOMAIN s : s[i] \in Report OBVIOUS
  <1>2. \A r \in Report : r \in Nat OBVIOUS
  <1> QED BY <1>1, <1>2

LEMMA ConcatRows ==
    ASSUME NEW s \in Seq(Report), NEW t \in Seq(Report)
    PROVE  /\ s \o t \in Seq(Report) /\ Len(s) \in Nat /\ Len(s \o t) = Len(s) + Len(t)
           /\ DOMAIN s = 1..Len(s) /\ \A i \in 1..Len(s) : s[i] \in Report
           /\ \A i \in 1..Len(s) : (s \o t)[i] = s[i]
           /\ \A i \in 1..Len(t) : (s \o t)[Len(s) + i] = t[i]
  <1>1. \A i \in 1..Len(s) : s[i] \in Report OBVIOUS
  <1>2. \A i \in 1..Len(s) : (s \o t)[i] = s[i] OBVIOUS
  <1>3. \A i \in 1..Len(t) : (s \o t)[Len(s) + i] = t[i] OBVIOUS
  <1> QED BY <1>1, <1>2, <1>3

\* A page continues what was read so far.
LEMMA PageKeeps ==
    ASSUME PageInv, FirstPage \/ NextPage
    PROVE  PageInv'
  <1> DEFINE rows == {r \in Report : Store!Served(r) /\ AfterCursor(r)}
             page == {r \in rows : Newer(r, rows) < Limit}
             more == rows # page
  <1>1. /\ got' = got \o Descending(page) /\ cursor' = (IF more THEN Min(page) ELSE 0)
        /\ pc' = (IF more THEN "list" ELSE "listed")
        /\ UNCHANGED <<current, file>>
    BY DEF FirstPage, NextPage, Page, archive
  <1>2. /\ got \in Seq(Report) /\ \A i, j \in DOMAIN got : i < j => got[i] > got[j]
        /\ steady' \subseteq Report /\ \A r \in steady' : Store!Served(r)
    BY <1>1 DEF FirstPage, NextPage, PageInv
  <1>3. /\ \A r \in steady' : r \in ToSet(got) \/ r \in rows
        /\ \A i \in DOMAIN got, r \in rows : got[i] > r
    <2>1. CASE FirstPage
      BY <1>2, <2>1 DEF FirstPage, AfterCursor
    <2>2. CASE NextPage
      <3>1. /\ cursor \in Nat /\ cursor > 0 /\ steady' = steady
            /\ \A i \in DOMAIN got : got[i] >= cursor
            /\ \A r \in steady : r >= cursor => r \in ToSet(got)
        BY <2>2 DEF NextPage, PageInv
      <3>2. \A r \in Report : AfterCursor(r) <=> r < cursor BY <3>1 DEF AfterCursor
      <3>3. \A r \in steady' : r \in ToSet(got) \/ r \in rows
        BY <1>2, <3>1, <3>2
      <3>4. ASSUME NEW i \in DOMAIN got, NEW r \in rows
            PROVE  got[i] > r
        <4>1. r \in Nat /\ r < cursor /\ got[i] >= cursor BY <3>1, <3>2
        <4>2. got[i] \in Nat BY <1>2, RowsOf
        <4> QED BY <3>1, <4>1, <4>2
      <3> QED BY <3>3, <3>4
    <2> QED BY <2>1, <2>2
  <1>4. rows \subseteq Report /\ rows \subseteq Nat /\ IsFiniteSet(rows)
    <2>1. rows \subseteq Report OBVIOUS
    <2> QED BY <2>1, FS_Subset
  <1>5. more => /\ Min(page) \in page /\ Min(page) > 0
                /\ \A r \in page : r >= Min(page)
                /\ \A r \in rows : r >= Min(page) => r \in page
    BY <1>4, PageIsNewest
  <1> HIDE DEF rows
  <1>6. page \subseteq rows /\ IsFiniteSet(page) /\ page \subseteq Nat /\ page \subseteq Report
    <2>1. page \subseteq rows OBVIOUS
    <2> QED BY <1>4, <2>1, FS_Subset
  <1> HIDE DEF page
  <1> DEFINE next == Descending(page)
             n == Cardinality(page)
  <1>7. /\ next \in Seq(page) /\ Len(next) = n /\ n \in Nat
        /\ \A i, j \in 1..n : i < j => next[i] > next[j]
        /\ \A r \in page : \E i \in 1..n : next[i] = r
    BY <1>6, DescendingSorted
  <1> HIDE DEF next, n
  <1>8. /\ got' \in Seq(Report) /\ Len(got) \in Nat /\ Len(got') = Len(got) + n
        /\ \A i \in 1..Len(got) : got'[i] = got[i]
        /\ \A i \in 1..n : got'[Len(got) + i] = next[i]
    <2>1. next \in Seq(Report) BY <1>6, <1>7, WiderSeq
    <2>2. got' = got \o next BY <1>1 DEF next
    <2>3. /\ got \o next \in Seq(Report) /\ Len(got) \in Nat
          /\ Len(got \o next) = Len(got) + Len(next)
          /\ \A i \in 1..Len(got) : (got \o next)[i] = got[i]
          /\ \A i \in 1..Len(next) : (got \o next)[Len(got) + i] = next[i]
      BY <1>2, <2>1, ConcatRows
    <2> QED BY <1>7, <2>2, <2>3
  <1>9. ASSUME NEW k \in DOMAIN got'
        PROVE  \/ k \in 1..Len(got) /\ got'[k] = got[k]
               \/ \E i \in 1..n : k = Len(got) + i /\ got'[k] = next[i] /\ next[i] \in page
    <2>1. k \in 1..(Len(got) + n) BY <1>8
    <2>2. CASE k <= Len(got) BY <1>8, <2>1, <2>2
    <2>3. CASE k > Len(got)
      <3>1. k - Len(got) \in 1..n /\ k = Len(got) + (k - Len(got)) BY <1>7, <1>8, <2>1, <2>3
      <3>2. next[k - Len(got)] \in page BY <1>7, <3>1
      <3> QED BY <1>8, <3>1, <3>2
    <2> QED BY <1>8, <2>1, <2>2, <2>3
  <1>10. ASSUME NEW k \in DOMAIN got', NEW m \in DOMAIN got', k < m
         PROVE  got'[k] > got'[m]
    <2>1. CASE m \in 1..Len(got)
      <3>1. k \in 1..Len(got) /\ m \in DOMAIN got /\ k \in DOMAIN got BY <1>2, <1>8, <1>10, <2>1
      <3> QED BY <1>2, <1>8, <1>10, <2>1, <3>1
    <2>2. CASE m \notin 1..Len(got)
      <3>1. PICK j \in 1..n : m = Len(got) + j /\ got'[m] = next[j] /\ next[j] \in page
        BY <1>9, <2>2
      <3>2. CASE k \in 1..Len(got)
        <4>1. k \in DOMAIN got /\ got'[k] = got[k] BY <1>2, <1>8, <3>2
        <4> QED BY <1>3, <1>6, <3>1, <4>1
      <3>3. CASE k \notin 1..Len(got)
        <4>1. PICK i \in 1..n : k = Len(got) + i /\ got'[k] = next[i] BY <1>9, <3>3
        <4>2. i < j BY <1>7, <1>8, <1>10, <3>1, <4>1
        <4> QED BY <1>7, <3>1, <4>1, <4>2
      <3> QED BY <3>2, <3>3
    <2> QED BY <2>1, <2>2
  <1>11. ToSet(got) \subseteq ToSet(got') /\ page \subseteq ToSet(got')
    <2>1. ASSUME NEW r \in ToSet(got)
          PROVE  r \in ToSet(got')
      <3>1. PICK i \in DOMAIN got : got[i] = r BY DEF ToSet
      <3>2. i \in 1..Len(got) /\ i \in 1..Len(got') BY <1>2, <1>7, <1>8
      <3>3. i \in DOMAIN got' /\ got'[i] = r BY <1>8, <3>1, <3>2
      <3> QED BY <3>3 DEF ToSet
    <2>2. ASSUME NEW r \in page
          PROVE  r \in ToSet(got')
      <3>1. PICK i \in 1..n : next[i] = r BY <1>7
      <3>2. Len(got) + i \in 1..Len(got') BY <1>7, <1>8
      <3>3. Len(got) + i \in DOMAIN got' /\ got'[Len(got) + i] = r BY <1>8, <3>1, <3>2
      <3> QED BY <3>3 DEF ToSet
    <2> QED BY <2>1, <2>2
  <1>12. \A r \in steady' : Store!Served(r)'
    BY <1>1, <1>2 DEF Store!Served
  <1>13. CASE more
    <2>1. cursor' = Min(page) /\ pc' = "list" BY <1>1, <1>13
    <2>2. cursor' \in Nat /\ cursor' > 0 /\ Min(page) \in page BY <1>5, <1>6, <1>13, <2>1
    <2>3. \A r \in steady' : r >= cursor' => r \in ToSet(got')
      BY <1>3, <1>5, <1>11, <1>13, <2>1
    <2>4. ASSUME NEW k \in DOMAIN got'
          PROVE  got'[k] >= cursor'
      <3>1. CASE k \in 1..Len(got) /\ got'[k] = got[k]
        <4>1. k \in DOMAIN got /\ Min(page) \in rows
          <5>1. DOMAIN got = 1..Len(got) BY <1>2
          <5> QED BY <1>6, <2>2, <3>1, <5>1
        <4>2. got[k] > Min(page) BY <1>3, <4>1
        <4>3. got[k] \in Nat BY <1>2, <4>1, RowsOf
        <4> QED BY <2>1, <2>2, <3>1, <4>2, <4>3
      <3>2. CASE \E i \in 1..n : k = Len(got) + i /\ got'[k] = next[i] /\ next[i] \in page
        BY <1>5, <1>13, <2>1, <3>2
      <3> QED BY <1>9, <3>1, <3>2
    <2> QED BY <1>1, <1>2, <1>8, <1>10, <1>12, <2>1, <2>2, <2>3, <2>4 DEF PageInv
  <1>14. CASE ~more
    <2>1. cursor' = 0 /\ pc' = "listed" /\ rows = page BY <1>1, <1>14
    <2>2. \A r \in steady' : r \in ToSet(got') BY <1>3, <1>11, <2>1
    <2> QED BY <1>1, <1>2, <1>8, <1>10, <1>12, <2>1, <2>2 DEF PageInv
  <1> QED BY <1>13, <1>14

LEMMA PageInvariance == Spec => []PageInv
  <1>1. Init => PageInv
    BY DEF Init, PageInv
  <1>2. PageInv /\ [Next]_vars => PageInv'
    <2> SUFFICES ASSUME PageInv, [Next]_vars PROVE PageInv' OBVIOUS
    <2>1. CASE ArchiveChanges
      <3>1. UNCHANGED <<pc, cursor, got>> /\ steady' = {r \in steady : Store!Served(r)'}
        BY <2>1 DEF ArchiveChanges, Changing, Watched
      <3>2. steady' \subseteq steady /\ \A r \in steady' : Store!Served(r)' BY <3>1
      <3> QED BY <3>1, <3>2 DEF PageInv
    <2>2. CASE \/ JobEnds \/ Submit \/ SubmitAnswered \/ Expire \/ Poll \/ Answer \/ PollFails \/ Receive
               \/ Restart \/ Reopen \/ AskFile \/ LookUp \/ Open \/ UNCHANGED vars
      <3>1. UNCHANGED <<current, file, cursor, got, steady>>
        BY <2>2 DEF JobEnds, Submit, SubmitAnswered, Expire, Poll, Answer, PollFails, Receive,
                    Restart, Changing, Reopen, Store!Restart, Store!Reopen,
                    AskFile, LookUp, Open, vars, archive, listing
      <3>2. pc' \in {"list", "listed"} => pc' = pc
        BY <2>2 DEF JobEnds, Submit, SubmitAnswered, Expire, Poll, Answer, PollFails, Receive,
                    Restart, Reopen, AskFile, LookUp, Open, vars
      <3> QED BY <3>1, <3>2 DEF PageInv, Store!Served
    <2> QED BY <2>1, <2>2, PageKeeps DEF Next, Client
  <1> QED BY <1>1, <1>2, PTL DEF Spec

\* list_reports: whatever is published, withdrawn or damaged between two pages,
\* a report that was there all the time is in one of them, and in one only.
THEOREM PagesAreComplete == Spec => []PagesComplete
  <1>1. PageInv => PagesComplete
    BY DEF PageInv, PagesComplete
  <1> QED BY <1>1, PageInvariance, PTL

-----------------------------------------------------------------------------
(* Types *)

\* What the other invariants leave open of TypeOK.
ClientInv ==
    /\ pc \in {"submit", "sent", "poll", "polled", "answered", "ended", "gave up",
               "list", "listed", "file", "looked up", "read"}
    /\ keyed \in BOOLEAN /\ (job = {} \/ \E k \in Key : job = {k})
    /\ {doc, last} \subseteq Statuses /\ expired \in BOOLEAN

ChangeInv == changes \in 0..MaxChange

FileTypeInv ==
    /\ row \in Content \cup {NoContent}
    /\ reply \in [status : {0, 200, 304, 409}, etag : Content \cup {NoContent}]
    /\ shown \subseteq (Content \cup {NoContent}) \X BOOLEAN

LEMMA ClientKeeps ==
    ASSUME WaitInv, ClientInv, [Next]_vars
    PROVE  ClientInv'
  <1>1. CASE Submit
    BY <1>1 DEF Submit, ClientInv, waiting
  <1>2. CASE SubmitAnswered
    BY <1>2 DEF SubmitAnswered, ClientInv, waiting
  <1>3. CASE Answer
    <2>1. PICK k \in job : doc' = outcome[k] BY <1>3 DEF Answer
    <2>2. k \in Key BY <2>1 DEF ClientInv
    <2>3. outcome[k] \in Statuses BY <2>2 DEF WaitInv, BoardInv, Statuses
    <2> QED BY <1>3, <2>1, <2>3 DEF Answer, ClientInv, submission
  <1>4. CASE Poll \/ PollFails \/ Expire \/ Receive
    BY <1>4 DEF Poll, PollFails, Expire, Receive, ClientInv, submission, waiting
  <1>5. CASE FirstPage \/ NextPage
    <2>1. pc' \in {"list", "listed"} /\ UNCHANGED <<submission, waiting>>
      BY <1>5 DEF FirstPage, NextPage, Page
    <2> QED BY <2>1 DEF ClientInv, submission, waiting
  <1>6. CASE AskFile \/ LookUp \/ Open \/ Restart
    <2>1. pc' \in {"file", "read", "looked up", pc} /\ UNCHANGED <<submission, waiting>>
      BY <1>6 DEF AskFile, LookUp, Open, Restart, Changing
    <2> QED BY <2>1 DEF ClientInv, submission, waiting
  <1>7. CASE JobEnds \/ ArchiveChanges \/ Reopen \/ UNCHANGED vars
    BY <1>7 DEF JobEnds, ArchiveChanges, Changing, Reopen, vars, ClientInv, submission, waiting
  <1> QED BY <1>1, <1>2, <1>3, <1>4, <1>5, <1>6, <1>7 DEF Next, Client

LEMMA ChangeKeeps ==
    ASSUME ChangeInv, [Next]_vars
    PROVE  ChangeInv'
  <1>1. CASE ArchiveChanges \/ Restart
    <2>1. changes < MaxChange /\ changes' = changes + 1
      BY <1>1 DEF ArchiveChanges, Restart, Changing
    <2> QED BY <2>1, LimitAssumption DEF ChangeInv
  <1>2. CASE JobEnds \/ Reopen \/ Expire \/ Client \/ UNCHANGED vars
    <2>1. changes' = changes
      BY <1>2 DEF JobEnds, Reopen, Expire, Client, Submit, SubmitAnswered, Poll, Answer, PollFails,
                  Receive, FirstPage, NextPage, AskFile, LookUp, Open, vars, archive
    <2> QED BY <2>1 DEF ChangeInv
  <1> QED BY <1>1, <1>2 DEF Next

Version == Content \cup {NoContent}

ShowTyped == InShow \in Version \X BOOLEAN

LEMMA InShowType == StoreInv => ShowTyped
  <1> SUFFICES ASSUME StoreInv PROVE InShow \in Version \X BOOLEAN
    BY DEF ShowTyped
  <1>1. current[Subject] \in Version BY SubjectIsOne DEF StoreInv, Version
  <1>2. (file[Subject][current[Subject]] = "good") \in BOOLEAN /\ NoContent \in Version
    BY DEF Version
  <1>3. \A v \in Version, b \in BOOLEAN : <<v, b>> \in Version \X BOOLEAN OBVIOUS
  <1>4. CASE Store!Served(Subject)
    <2>1. InShow = <<current[Subject], file[Subject][current[Subject]] = "good">>
      BY <1>4 DEF InShow
    <2> QED BY <1>1, <1>2, <1>3, <2>1, Zenon
  <1>5. CASE ~Store!Served(Subject)
    <2>1. InShow = <<NoContent, FALSE>> BY <1>5 DEF InShow
    <2> QED BY <1>2, <1>3, <2>1
  <1> QED BY <1>4, <1>5

LEMMA InShowTypeNext == StoreInv' => ShowTyped'
  <1> QED BY InShowType, PTL

LEMMA FileTypeKeeps ==
    ASSUME FileInv, FileInv', FileTypeInv, [Next]_vars
    PROVE  FileTypeInv'
  <1>1. InShow \in Version \X BOOLEAN /\ InShow' \in Version \X BOOLEAN
    BY InShowType, InShowTypeNext DEF FileInv, ShowTyped
  <1> HIDE DEF InShow
  <1>2. CASE ArchiveChanges
    <2>1. UNCHANGED <<row, reply>> BY <1>2 DEF ArchiveChanges, Changing
    <2>2. shown' = shown \cup {InShow'} \/ shown' = shown BY <1>2 DEF ArchiveChanges, Watched
    <2> QED BY <1>1, <2>1, <2>2 DEF FileTypeInv, Version
  <1>3. CASE AskFile
    BY <1>3 DEF AskFile, FileTypeInv, NoReply
  <1>4. CASE LookUp
    <2>1. row' \in Version /\ shown' = {InShow}
      BY <1>4, SubjectIsOne DEF LookUp, CurrentRow, FileInv, AskedInv, StoreInv, Version
    <2>2. reply' = reply \/ reply' = Refusal BY <1>4 DEF LookUp
    <2> QED BY <1>1, <2>1, <2>2 DEF FileTypeInv, Refusal, Version
  <1>5. CASE Open
    <2>1. UNCHANGED <<row, shown>> BY <1>5 DEF Open
    <2>2. reply' = Refusal \/ \E status \in {200, 304} : reply' = [status |-> status, etag |-> row]
      BY <1>5 DEF Open
    <2> QED BY <2>1, <2>2 DEF FileTypeInv, Refusal
  <1>6. CASE \/ JobEnds \/ Submit \/ SubmitAnswered \/ Expire \/ Poll \/ Answer \/ PollFails \/ Receive
             \/ FirstPage \/ NextPage \/ Restart \/ Reopen \/ UNCHANGED vars
    <2>1. UNCHANGED <<row, reply, shown>>
      BY <1>6 DEF JobEnds, Submit, SubmitAnswered, Expire, Poll, Answer, PollFails, Receive,
                  FirstPage, NextPage, Restart, Changing, Reopen, vars, reading
    <2> QED BY <2>1 DEF FileTypeInv
  <1> QED BY <1>2, <1>3, <1>4, <1>5, <1>6 DEF Next, Client

\* Jobs, rows, pages and answers keep to their domains, and a report whose
\* manifest row names no version has no artifact that can be read.
THEOREM TypeCorrect == Spec => []TypeOK
  <1> DEFINE FieldInv == ClientInv /\ ChangeInv /\ FileTypeInv
  <1>1. Init => FieldInv
    <2> SUFFICES ASSUME Init PROVE FieldInv OBVIOUS
    <2>1. ClientInv BY DEF Init, ClientInv, Statuses
    <2>2. ChangeInv BY DEF Init, ChangeInv
    <2>3. FileTypeInv BY DEF Init, FileTypeInv, NoReply
    <2> QED BY <2>1, <2>2, <2>3
  <1>2. WaitInv /\ FileInv /\ FileInv' /\ FieldInv /\ [Next]_vars => FieldInv'
    BY ClientKeeps, ChangeKeeps, FileTypeKeeps DEF FileInv
  <1> HIDE DEF FieldInv
  <1>3. Spec => []FieldInv
    BY <1>1, <1>2, WaitInvariance, FileInvariance, PTL DEF Spec
  <1>4. WaitInv /\ FileInv /\ PageInv /\ FieldInv => TypeOK
    <2> SUFFICES ASSUME WaitInv, FileInv, PageInv, FieldInv PROVE TypeOK
      OBVIOUS
    <2>1. Cardinality(job) <= 1
      <3>1. Cardinality({}) = 0 /\ \A k \in Key : Cardinality({k}) = 1 BY FS_EmptySet, FS_Singleton
      <3>2. job = {} \/ \E k \in Key : job = {k} BY DEF FieldInv, ClientInv
      <3> QED BY <3>1, <3>2
    <2>2. job \subseteq Key BY DEF FieldInv, ClientInv
    <2>3. /\ accepted \in [Key -> Request \cup {NoRequest}]
          /\ outcome \in [Key -> {"pending"} \cup Board!Outcomes]
          /\ tries \in 0..MaxTry
      BY DEF WaitInv, BoardInv
    <2>4. /\ current \in [Report -> Content \cup {NoContent}]
          /\ file \in [Report -> [Content -> Store!FileView]]
          /\ \A r \in Report : current[r] = NoContent => \A c \in Content : file[r][c] = "off"
          /\ up \in BOOLEAN /\ asked \in Content \cup {NoContent}
      BY DEF FileInv, StoreInv, AskedInv
    <2>5. cursor \in Nat /\ got \in Seq(Report) /\ steady \subseteq Report
      BY DEF PageInv
    <2>6. changes \in 0..MaxChange BY DEF FieldInv, ChangeInv
    <2>7. /\ pc \in {"submit", "sent", "poll", "polled", "answered", "ended", "gave up",
                     "list", "listed", "file", "looked up", "read"}
          /\ keyed \in BOOLEAN /\ {doc, last} \subseteq Statuses /\ expired \in BOOLEAN
      BY DEF FieldInv, ClientInv
    <2>8. FileTypeInv BY DEF FieldInv
    <2>9. {asked, row} \subseteq Content \cup {NoContent} BY <2>4, <2>8 DEF FileTypeInv
    <2> QED
      BY <2>1, <2>2, <2>3, <2>4, <2>5, <2>6, <2>7, <2>8, <2>9 DEF TypeOK, FileTypeInv
  <1> QED BY <1>3, <1>4, WaitInvariance, FileInvariance, PageInvariance, PTL

=============================================================================
