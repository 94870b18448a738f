# reports-fetcher in TLA+

Specifications of the reports-fetcher service (package `reports_fetcher`), the
TLC runs that check them on small instances and the TLAPS proofs about them.
Line numbers are those of the Python sources.

## 1. The system

reports-fetcher finds annual and interim reports of listed companies at three
sources (CNINFO for CN, HKEXnews for HK, EDGAR for US), downloads them and keeps
them in an archive: files under one root directory and one SQLite database. It is
used from a command line or as an HTTP service that accepts *fetch jobs*.

| component | state it keeps | operations | talks to |
|---|---|---|---|
| `Store` (`store.py`) | tables `manifest`, `artifacts`, `archive_intents`, `symbol_map`; archived files; `.tmp/*.part`; the owner lock | `upsert_report`, `find_cached`, `register_download`, `commit_file`, `mark_failed`, `enrich_report_period`, `_recover` at start | called by FetchService, JobService and the API; files and rows share no transaction |
| `FetchService` (`core.py`) | locals of one `fetch`; a pool of up to three download workers | `fetch`, `preview`: discover, prepare periods, select, download | adapters, Transport, Store |
| `JobService` (`jobs.py`) | tables `jobs`, `job_symbols`, `job_items`; the event `_wake`; one executor thread | `submit`, `claim_next`, `run_job`, `recover`, `get_job` | API threads call it, it calls FetchService; the tables are shared, the event only wakes |
| HTTP API (`api.py`) | none | submit, status, list, detail, file, health | JobService and Store, from worker threads |
| Transport and RateLimiter (`downloader.py`) | next permitted time per source group | `request` with retries and redirects, `download` to a temporary file | sources |
| adapters (`adapters/`) | session caches of tickers and submissions | `resolve`, `list_reports` under a request budget | Transport |
| selection (`selection.py`), symbols, periods | none | pure functions | FetchService |
| index export, CLI, config | two index files | best-effort export; one fetch per process | Store, FetchService |
| integration kit (`integration-kit/`) | mock server: jobs and reports in memory | a second implementation of the HTTP contract, and a client | - |

What is hard in it: the archive commits a file in two database transactions with a
rename between them and can die at any point; recovery acts at the next start on
rows an arbitrary history has left; refreshes go over content that is being
served; submissions race each other and the executor; a job can be interrupted,
restarted and run into its deadline with half of its results written; the
executor thread sleeps on an event; periods found in earlier runs influence what
is selected in later ones.

What makes each component correct:

* Store: a row never promises a file that was not put in place; verified bytes are
  not lost by a crash; what recovery leads to depends on what the dead process left and
  not on how often recovery dies itself; a version once in show is withdrawn only for
  damage; versions do not go back.
* JobService: one job per key, with the request it was accepted with; at most
  `max_pending_jobs` unfinished; statuses final and true to the results; deadline and
  attempts bounded over restarts; every accepted job ends.
* Transport: spacing of requests per source group, bounded retries.
* Selection: the newest `last_n` groups, the same from a cold and a warm archive.
* API: pages neither repeat nor miss a report; a file that is answered was in show,
  undamaged, while the request ran.

`PROJECT.json` lists the components with what is modelled of each, the hazards with
the properties aimed at them, and which lines every definition stands for.

## 2. Modules

| module | what it is |
|---|---|
| `Archive` | what the archive promises: versions in show, verified deliveries on hand, damage |
| `ArchiveView` | what the archive promises the requests of the HTTP API: the version a manifest row names, and rows and files of all versions, superseded ones too |
| `ArchiveStore` | the store and the download stage that writes it, in the steps of the code |
| `MCArchiveStore` | the module TLC runs for it |
| `ArchiveStoreProofs` | the inductive invariant of ArchiveStore, a second one for crashes alone, and what follows |
| `ArchiveRefinement` | the proof that ArchiveStore implements Archive and ArchiveView |
| `JobBoard` | what the job service promises: accepted requests and final outcomes |
| `JobService` | submitting threads, executor, reader, crash and restart |
| `MCJobService` | sizes of the requests for TLC |
| `JobServiceProofs` | the inductive invariant of JobService, a second one for rows and documents, and the refinement of JobBoard |
| `Transport` | rate limiter, retry loop and redirects under concurrent threads |
| `MCTransport` | groups and intervals for TLC |
| `TransportProofs` | the inductive invariant of Transport and what follows from it |
| `Selection` | the version selection of `selection.py` as operators on sets of candidates |
| `Fetch` | the fetches of one Hong Kong security over one archive: candidates, probes, selection, preparation, downloads, status |
| `SelectionProofs` | the orders of the selection are strict and total, and which reports it selects |
| `FetchProofs` | the inductive invariant of Fetch, and a second one for sources that file in order |
| `MCFetch` | the sources TLC tries: what there is to find and how its periods are known |
| `Discovery` | the searches of the three adapters under their request budget, over a source that publishes |
| `MCDiscovery` | the histories of the source for TLC |
| `DiscoveryProofs` | the inductive invariant of Discovery and its five properties |
| `ClientSession` | a client of the HTTP API over JobBoard and ArchiveView: submit, wait, list, read a file |
| `ClientProofs` | that waits tell the truth, pages are complete and answers of `report_file` are explained |
| `MCClientSession` | the symmetry of contents for TLC |

How they fit: the search of HKEXnews in `Discovery` is what the step `Discover` of `Fetch`
stands for (the list it finds, all of it or, when it is truncated, a part); `Selection` is used by `Fetch` in each selection; `Fetch` leaves
the archive of one report to `ArchiveStore` (a report is held or not) and is itself the one
step `FetchSecurity` of `JobService` (any result). `ArchiveStore` implements `Archive` and
`ArchiveView`: the first says when a version may come into show or leave it, the second
what a reader meets who holds the row of a version, in show or superseded, while the archive
changes. `JobService` implements `JobBoard`. `ClientSession` is composed of `JobBoard` and
`ArchiveView`, which is what makes its instance small enough, and has no step of the
archive that is not one of `ArchiveView`.

### ArchiveStore

The state is that of the tables and directories. `status`, `current` are columns of
`manifest`; `artState`, `artName` are `state` and `local_path` of `artifacts`;
`intentState`, `intentReport`, `intentContent`, `intentName` are a row of
`archive_intents`; `disk` and `temp` are the files; `pc`, `attempt`, `content`,
`target`, `prior`, `prefetched` are the locals of the fetch of one report.

An artifact id is derived from report and SHA-256, so a pair of `Report` and `Content`
is an artifact, and bytes and hash are one value. A `Name` is what the target path
takes from metadata (title, period), which a later discovery may change, so one
artifact may be staged under a new path.

| action | code |
|---|---|
| `Discover`, `LeaveOut` | discovery and selection, as far as they leave a prefetched file or a manifest row |
| `UpsertForRefresh`, `UpsertAndLookup`, `UpsertAndMarkUnavailable` | `_prepare_archive` with the outcomes of `find_cached` |
| `RegisterDownload`, `SkipAtDeadline` | `register_download`, by a worker or at the deadline |
| `Download` | `Transport.download` |
| `Stage`, `Place`, `RefuseOverwrite`, `Finalize` | the four parts of `commit_file` |
| `StepFails`, `Abort`, `MarkFailedReturns`, `MarkFailed`, `MarkFailedRaises` | exceptions and `mark_failed` |
| `Close` | the `finally` clause of `fetch` |
| `Crash`, `RecoverFinalize`, `RecoverRename`, `RecoverAbandon`, `RecoverSweep` | process death, and `_recover` one intent at a time |
| `Tamper` | somebody damages or removes an archived file |

Recovery takes the intents in the order of registration. `ORDER BY created_at` has
one-second stamps; rows of one second come in the order of insertion, because the
table is scanned in that order and no index covers the column.

### JobService

`jobStatus`, `jobRequest`, `jobAttempt`, `jobCreated`, `jobDeadline`, `jobError` are
columns of `jobs` (`jobError` is the error in `summary_json`), `rows` is `job_symbols`,
`writer` the thread that holds SQLite's write lock over several statements. A
`Key` is a pair of client and idempotency key, a `Request` the normalised request with
its hash. `submit` is one action per statement (`SubmitBegin` to `SubmitWake`), so that
the interleavings its write lock excludes are excluded by the lock and not by the
grain of the model. `claim_next` is two actions, because its SELECT runs before the
write transaction begins. The fetch of one security is one step with any result of
`SourceResult`; behind it is ArchiveStore. A row that failed with
`job_deadline_exceeded` is kept apart as `expired`.

### Transport

`nextOk` is `RateLimiter._next_ok`; `attempt` and `hop` are the counters of the loops
of `request` and `_issue`; `target` is the source group of the URL that comes next;
`ticket` is the slot that the last wait reserved. `Reserve` is all of the locked part
of `wait`, and the sleep after it is a point of its own (`asleep`), because other threads
reserve meanwhile. `Redirect` goes back to the limiter with the group of the new URL;
that the target is refused is found out after the wait, as in the code
(`RedirectRefused`). `Fail` is a network error or an answer 429 or 5xx; the backoff is any
value its jitter may give. Which answers and targets come is the sources' choice.
`barred` and `sent` are history variables that properties read.

### Selection and Fetch

`Selection` translates `select_reports` with its sort keys: groups, the full versions of a
group in the preferred language, the newest of these, and the newest `last_n` groups.
Ids are numbers in the order of `source_id`, with which all its sort keys end, so each order is
total, as in the code. The time of acceptance is a field of its own, `accepted`: the order of
the versions looks at it, the order of the groups does not. In `Fetch` no report has one,
because HKEXnews tells none.

`Fetch` is about one Hong Kong security. Only there are files probed for their period; and
the searches there have no early stop, so that a list is incomplete only if it is truncated.
`world` is the source: for each report its true period and whether title, text
and an announcement give it. `fact` are the columns `report_period` and `period_source` of
`manifest`, `held` the reports with a ready artifact; they last from fetch to fetch.
`known` is the period of the report objects, `first`, `pool`, `prefetched`, `failures`,
`skipped` are the locals of `_prepare_selection_periods` (`first` the form whose candidates
are probed first, because it came first in the list), `items`, `warnings`, `status` the result.

| action | code |
|---|---|
| `Begin`, `Expire`, `DiscoverFails` | start of `fetch` for a security; the deadline; errors of the source |
| `Discover` | `_discover`, `_backfill_periods_from_store`, the pool of probes |
| `Probe`, `SkipProbes` | one probe of `_prepare_selection_periods`, from the archive or from a file downloaded ahead, either of which may fail; the deadline |
| `SelectStep` | `_apply_period_evidence`, `select_reports`, `_omitted_probe_failures` |
| `Prepare`, `StartDownloads`, `Download` | `_prepare_archive`, the deadline before the pool, `_run_download` |
| `Close` | `_apply_period_warnings`, `_finalize_status`, the clean-up |
| `Interrupted` | an exception nobody catches, or the death of the process |

### Discovery

One specification for the three adapters, because they have one shape: requests under a
budget, a list `todo` of windows or files, an early stop, and what the result says of
its coverage. `market` tells which of them runs; `rows` is the source, the oldest row first,
and `Publish` adds to it between any two requests. `CnPage`, `HkWindow` with `HkNextSearch`,
`UsFile` with `UsFileFails` and `UsFilesEnd` are the bodies of the loops; `BudgetSpent` and
`RequestFails` are common. `submissions` is EDGAR's cache, which `BeginSession`
(`begin_discovery_session`) forgets. `sent`, `cut`, `start`, `opened` are history variables.

### ClientSession

`accepted`, `outcome` are those of `JobBoard`; `current`, `file`, `up` those of `ArchiveView`:
the version of each manifest row, for each version whether it has a ready artifact and
whether its file is the right one, and whether the process is up. A report is its
rowid. The session begins over an archive of earlier jobs (`Archived`). `Submit` to `Receive`
are `submit_job` and `wait_for_terminal` of the kit's client with the service at the other
end, each message a step of its own, so that it can be lost, time out or cross the end of the
job. `FirstPage` and `NextPage` are one query of `list_reports` each. `LookUp` and `Open` are the
two moments at which `report_file` looks at the archive: manifest row and artifact id first,
then artifact row and file in `open_artifact`. `ArchiveChanges` is any change of
`ArchiveView` in between: a publication, a redelivery that takes a current or superseded
version back to staged, a write-off, damage of any version. `Restart` and `Reopen` are the
death of the process and the end of its recovery; a request that is being answered dies with it.

## 3. Runs

| run | question | instance |
|---|---|---|
| `ArchiveStore` | do rows, files and recovery stay consistent, and is the store an `Archive` and an `ArchiveView`? | 1 report, 2 contents, 2 names, 3 attempts, 2 crashes, 1 fault, 1 damage |
| `JobSubmit` | do concurrent submissions keep their answers and the limit, and does every accepted job end? | 2 threads, 2 keys, 2 requests, 3 submissions, queue of 1, 1 crash, 1 fault, weak fairness |
| `JobRun` | does the status say what the results say? | 1 job of 2 securities, all results, deadline in reach, 2 crashes, 1 fault, 1 reader |
| `Transport` | do concurrent requests, retries and redirects keep the sources' rates? | 2 threads, 2 groups with intervals 2 and 1, 2 requests with 1 retry and 1 hop, 6 ticks |
| `Fetch` | is `ok` earned, and does what one fetch learns leave the next one's selection alone? | 4 reports, all orderly sources of `MCFetch` and 12 mixed ones, `last_n` 2, 2 fetches, 1 fault, deadline at any point |
| `Discovery` | is the budget kept and what a listing says of its coverage true? | 3 markets, 3 histories, budgets 1, 3 and 6, up to 7 rows, 3 listings, 2 new sessions |
| `ClientSession` | does a client get what the services promise although everything moves between its requests? | 2 keys, 2 submissions, 3 reports, 2 contents, pages of 1, an archive with any history, 3 changes of it or restarts |

The runs that expect a violation (`ArchiveStoreRollback`, `ArchiveStoreDegrade`,
`JobFailed`, `JobLate`, `FetchWarm`) are in section 6.

The properties and their reasons are stated above each definition. In short:

* `ReadyIsOnDisk`, `InFlightRecoverable`, `RecoveryCompletes`:
  crashes between any two steps lose no verified bytes and leave no promise
  without a file; recovery may itself die and start again.
* `RecoveryIsDetermined`: rows and files, as a dead process left them, imply for each report
  which version recovery will put in show (that of the last attempt that can be completed),
  which versions can be read then, and the status (`Outcome`). Each step of the recovery and
  each further death of it keeps this outcome, although several intents may share an
  artifact, a target path or a temporary file. It is not about damage done meanwhile.
* `ManifestAgrees`, `DownloadingIsResolvable`: the manifest follows the artifacts
  although different transactions write them.
* `CrashesKeepServed`, `CrashesKeepOrder`: with no failure but crashes, an archived
  report stays in show and versions never go back. Without that restriction both are
  false, see section 6.
* `ImplementsArchive`: a version is shown only if its verified bytes were on hand,
  and withdrawn only if damaged or while the same bytes are delivered again; and what a reader
  sees of all versions changes as `ArchiveView` says: while the process is up a file
  becomes good only by the publication that puts its version in show.
* `RepliesHold`, `NoIntegrityError`, `ImplementsJobBoard`: answers stay true across
  crashes, the lookup and the insert are one, the queue never overflows.
* `QueuedIsClaimable`, `RunningIsOwned`, `DeadlineIsFixed`, `JobsEnd`: attempts and
  deadline are bounded over restarts and no job is orphaned.
* `StatusMatchesRows`, `DocumentComplete`: the status is that of the rows in the
  table, although it was computed from this attempt's results in memory, and a
  document shows all results of a terminal job although it is read in two statements.
* `SlotsApart`, `SentInBudget`, `RateHolds`, `PauseKept`: the slots of a group are an
  interval apart for all threads, every hop and retry goes out under a slot of the group
  it goes to, so that a group gets no more requests than its rate, and a source that
  asked for a pause gets it.
* `OkMeansNewest`, `WarmKeeps`, `PreviewAgrees`: a fetch that ends `ok` has selected
  the newest reports by their *true* period, which the code never knows for sure; a later
  fetch and a preview select the same from what it wrote down. They are about sources
  that file in the order of periods (`Orderly`); for others see `FetchWarm` in section 6.
  `OkMeansNewest` also takes for granted, as `core.py` does, that a quarterly title gives
  its period (`QuarterliesTitled`); the run has a source where one does not.
* `ResultAgrees`, `PeriodsStay`: result and manifest tell the same periods though either
  write may fail, and a known period is never lost to a later unreadable text.
* `BudgetKept`, `CoverageHonest`, `KeepsNewest`, `SessionSeesNew`: searches that share a
  budget keep to it; `exhausted`, `truncated` and the early stop mean what they say
  although the source publishes and pages shift; what is left unread is the oldest; no
  cache outlives the session.
* `WaitTells`: with a lost answer and a repeated submission a keyed client has one job,
  and its wait returns that job's true end.
* `PagesComplete`: no report twice and none missed that was served throughout.
* `FileIsCurrent`: the answer of `report_file` to a request without an `artifact_id`. An ETag
  is that of a version that was in show with a good file at some moment of the request
  (`EtagShown`), though the version may be superseded, delivered again or damaged between the
  two reads; and a request during which one version with a good file stays in
  show is answered with it (`SteadyAnswered`). Nothing is promised to a request that saw
  two versions in show: it may be refused, see section 6.

Bounds. Reports do not interact in the store (every row, file and local belongs to one
report, except for the recovery mode), so one report with several attempts shows what
there is; three attempts let a later one overtake an unfinished earlier one and a
third follow; two crashes let recovery be interrupted and run again; two names let an
artifact move. Two threads and two keys are what a race needs; a queue of one is full
at once; two securities let one differ from the other; two attempts with two crashes
exhaust the attempts; `MaxTime` 2 with a deadline of 1 lets a restart come after it.
One request per thread with a retry and a
redirect lets four attempts contend for one group, and 6 ticks are longer than
a pause and a slow interval after it. Four reports with `last_n` 2 leave two to be left out,
so that a probe, a failed probe and an old report can each lie on either side of the
boundary, and two fetches are one cold and one warm. Years, pages and files of two rows
with up to seven rows make each loop go round at least twice; a look-back of 3 and `LastN` 3
give CNINFO a short window and a long one; budgets of 1, 3 and 6 end in the
first loop, in the middle and hardly ever. Pages of one row with three reports make
each cursor matter; with a history to begin with, three changes are enough to publish another
version, deliver the one that was looked up once more and publish or damage it within one
request. The archive changes only while the client has still something to read. The pause of the run is below the cap of
Retry-After; that the cap is kept too is proved. `MaxRequest`, `MaxSubmit`, `MaxRead`, `MaxFault`, `MaxTamper` bound what the environment does, never
what the code does; so do `MaxFetch`, `MaxSession`, `MaxListing`, `MaxRows`, `MaxTry` and
`MaxChange`. Deadlock is not checked: the environment may stop asking, and the
bounds stop everything in the end.

Fairness. `ArchiveStore!FairSpec` asks only that recovery, which runs in
`Store.__init__` before anything else, goes on. `JobService!FairSpec` (run `JobSubmit`) asks that a
submitting thread finishes its request, that the executor thread keeps running and
that a dead process is restarted (`restart: unless-stopped` in the compose file). It asks
nothing of the one-second timeout of `_wake.wait`: the run shows that the event alone
is enough.

## 4. Proofs

### ArchiveStore

For any sets of reports, contents and names and any bounds (the assumption
`ArchiveAssumption` only says that the NULL values are not members of the sets and that the
bounds are naturals):

* `Invariance`: `Spec => []IInv`, and from it `TypeCorrect`, `ReadyRowsHaveFiles`,
  `ManifestAgreement`, `DownloadsResolvable`, `InFlightNeverLost` and
  `RestartIsDetermined`.
* `Refinement`: `Spec => ImplementsArchive`.

None of the safety invariants is inductive alone. `IInv` adds `FetchInv`, what the
program counter of a fetch says about its attempt, its intent and its files, and
`IntentInv`, what an unfinished intent says about the artifact it names. `FetchInv` is
needed because `Finalize` publishes from locals what `Place` put on disk two steps
before; `IntentInv` because recovery publishes from a row that an earlier process
wrote. Each part is kept by every action in a lemma of its own (`TypeOKPreserved` to
`DownloadingIsResolvablePreserved`), with one step per action; the steps that only move
the program counter are taken together by `ControlStepOnly`.

`Refinement` maps `served` to the version in show, `onHand` to the contents of running
fetches and staged intents, and `damaged` to the reports whose shown file is not
intact. Lemmas such as `DeliverStep`, `ShowStep` and `WithdrawStep` say when a change of
these is a step of Archive; `FetchRefines`, `CrashRefines`, `RecoverRefines` and
`TamperRefines` sort the actions of ArchiveStore under them. The same theorem has ArchiveView,
with `current` as it is and `file` from artifact rows and disk: `QuietView` is a
step that leaves both alone, `PublishView` one that publishes, and `FetchViews`, `RecoverViews`,
`CrashViews` and `TamperViews` go through the actions.

`RestartIsDetermined` is proved from `IInv`, one lemma for each kind of step of the recovery:
`FinalizeKeepsOutcome` (the oldest unfinished intent is published and was one that `Outcome`
counts), `RenameKeepsOutcome` (a file moves from `.tmp` to its target, and intents of the
same target can be completed from there now) and `AbandonKeepsOutcome` (it could not be
completed and did not count). It holds because the scan is in the order of the attempts.

A second layer, `CalmInv`, is proved over `IInv` for histories in which nothing but crashes
has gone wrong (`Calm`: no fault, no damage so far):

* `ServedSurvivesCrashes`: `Spec => []CrashesKeepServed`, and `OrderSurvivesCrashes`:
  `Spec => CrashesKeepOrder`.

Neither property says why it holds: a done report may well be hidden for a while. `Kept` says
who will show it again. While the store is open every staged intent is some
fetch's (`StagedOwned`), which a crash breaks and the end of recovery restores; recovery can
complete every one that it finds (`StagedCompletable`, for which archived files must be
intact, `NoDamage`); a hidden version has a staged intent behind it (`HiddenIsStaged`); and
no later attempt of a report was published before a staged one (`NoneOvertaken`), because
attempts are given out in turn (`TurnInv`) and a fetch ends before the next begins. One fault
can break `StagedOwned` or `HiddenIsStaged` for good, as the two runs of section 6 show.

### JobService

For any sets of threads, keys and requests, any sizes of requests and any limits and
bounds (`JobAssumption`: NULL values are not members of the sets, limits are positive):

* `Invariance`: `Spec => []IInv`, and from it `TypeCorrect`, `AnswersStayTrue`,
  `NoUniqueViolation`, `QueuedHasAttempts`, `RunningHasOwner` and `DeadlineNeverMoves`.
* `Refinement`: `Spec => ImplementsJobBoard`.

`IInv` adds three parts. `SubmitInv` ties the write lock to the program counters: whoever
is between BEGIN IMMEDIATE and the end of its transaction holds the lock, so what it
found at its lookup and its count still holds at its insert. `JobInv` says which job the
executor has and that no other is running, which the uniqueness of the executor and
the order claim, run, finish give. `PendingFinite` makes the count of unfinished jobs a
number although `Key` may be infinite. The lemma the rest goes back to is
`TableChange`: a step inserts one row from the thread that holds the lock, or moves one
unfinished job while nobody is in a transaction (a restart too, since at most one job is
running), or leaves statuses and requests alone. `JobsStay`, the answers and the
refinement follow from these three cases; under `Refinement` the first is `Accept`, the
second `End` when the new status is terminal.

`RowsMatchStatus` and `DocumentsComplete` prove `StatusMatchesRows` and `DocumentComplete`
through a second layer, `RInv`. `ResultInv` is the heart of it: while a job runs, the rows of the
securities done so far hold exactly the mapped results that `run_job` has in memory, so what
was aggregated from memory is true of the table, whatever rows an earlier attempt left
behind the current security. `DocumentInv` says that a terminal status that was read is still
the job's when the rows are read. They need one more assumption, `SizeAssumption`: a
request has at most some number of securities (`max_symbols_per_job` in the code).

### Transport

For any sets of threads and groups, any intervals and limits (`TransportAssumption`):
`Invariance`: `Spec => []IInv`, and from it `TypeCorrect`, `SlotsNeverMeet`,
`EveryRequestIsCharged` and `PauseIsKept`.

`SlotsApart` is not inductive: it says nothing of the slot to come. `SlotInv` adds that
`nextOk` of a group is at least an interval past every slot that a thread holds, which is
what a new reservation starts from. `CallInv` says what a thread knows at each point: from
the wait to the answer its slot belongs to the group of its target and is what its sleep
led to; a backoff lasts at least as long as the pause (`BackoffHeeds`).

`RateIsKept` proves `RateHolds` with `RateInv`, which counts: the requests sent to a group and
the slots that threads still hold of it, times the interval, are not more than `nextOk`; and
for every time from now on the requests sent and the slots due up to it are few enough
for it. The second part is what survives the sleep, when a slot becomes a sending although
later slots are already given out.

### Selection and Fetch

For any source in any order of filing, with any number of reports, fetches, failures and
deadlines (`SourceAssumption`: finitely many reports with numbers;
`PreferenceAssumption`: a sequence of languages):

* `SelectionIsBounded`: the selection is a set of at most `lastN` full reports of its
  list. It rests on `LaterIsStrict`, `LaterIsTotal` and `AheadIsOrder`: because the sort
  keys end in the id, every group has one newest version (`NewestIsOne`), and the number
  of groups ahead tells the chosen ones apart, which is an injection into `lastN` places.
* `SelectionIsFront`: no report is selected in two versions, every selected group stands
  before every one left out, and none is left out while there is room. A group left out
  with the fewest before it would have only selected ones before it, so the room is gone.
* `Invariance`: `Spec => []IInv`, and from it `TypeCorrect`, `ResultIsKept`,
  `PeriodsAreKept`.
* `OkLayerInvariance`: `Spec => []OkLayer`, and from it `OkIsEarned`, `PreviewsAgree` and
  `WarmIsKept`, which are about orderly sources.

`ResultAgrees` and `PeriodsStay` speak of the end of a fetch and of one step, and neither
is inductive. `KnownInv` says that from the discovery to the preparation a report object
knows whatever the manifest knows, and that a candidate in the pool is known to neither, so
that a probe never writes over a period; `TitleInv` that a title has the first word in both,
which is what lets the report object of the next fetch start from its title; `ItemInv`
carries the agreement from the preparation of a report to the end of its download.
`ProbeFacts`, `PrepareFacts` and `DownloadFacts` say once what a step does to the periods, and
each invariant takes what it needs from them.

`OkLayer` is proved over `IInv`. The code never compares true periods: it sorts by what it
knows and puts the rest last. The argument why `ok` is earned all the same has three parts.

* *What the selection takes.* In an orderly source every report is a group of its own, so
  the selection from any facts is `Foremost(facts)`: the `LastN` first in the order of the
  known periods, with the unknown ones last (`OrderlySelect`, over `SinglesAreHeads` and a
  bijection between candidates and reports).
* *When that is the newest.* `Tellable` are the reports whose period can become known at all.
  If the newest `LastN` of them are known, they are foremost, whatever is known of the
  others (`KnownNewestAreForemost`). If all that is foremost is tellable, and each of the newest
  that is unknown was filed before it, it is the newest as well (`ForemostAreNewest`).
* *Why a fetch gets there.* `ProbedInv`: none of the newest reports is lost between what is
  known, the pool and the failures, since the pool takes the latest filed `LastN` unknown
  ones of each form (`PoolHasNewest`). A failure that is not counted as omitted is older than
  the selection (`OmittedNone`), so without a warning the selection is the newest
  (`ChoiceInv`); the end of the fetch checks the rest (`OkTakes`). `HistInv` carries to
  later fetches that the manifest has the periods of these reports for good (`FactStays`),
  and with the second part above that gives the preview and the warm fetch their result
  (`WarmInv`), without any probe.

`TellInv`, `StageInv`, `HeldInv` and `OkInv` are the smaller parts: what cannot be known is
not, what each stage says of status and list, and that the result is held.

### Discovery

For any histories whose rows are in the order of their filing and any sizes and budgets
(`HistoryAssumption`: EDGAR has the newest row in no history file; `SizeAssumption`):
`TypeCorrect`, `BudgetIsKept`, `CoverageIsHonest`, `NewestAreKept`, `SessionsSeeNew`, all from
one inductive invariant. `Upward` says that what was seen is the newest part of what was asked
for. Each adapter has its own reason for it: `CnInv` that the pages read so far hold the
first rows of the window, although a publication pushes rows to later pages (`NewerGrows`);
`HkInv` that the windows left lead on from where those read have ended (`Chained`), in two searches
that share the budget; `UsInv` that the files left reach down from what was read
(`Downward`). `SpentInv` ties the requests sent to those counted, with EDGAR's failed files
apart, and `DoneInv` turns this into what the result says.

### ClientSession

For any keys, reports, contents, page sizes and bounds (`ReportAssumption`: there is a report
and there are finitely many; `RequestAssumption`, `NoContentAssumption`: NULL values are apart):
`WaitIsTrue`, `FileIsExplained`, `PagesAreComplete` and `TypeCorrect`.

`WaitInv` ties the jobs at the service to the submissions of the client, and keeps that an
answer, once it tells an end, is true for good. `FileInv` says of the artifact that was looked
up that it was in show with a good file, if its file is good now, and that it is the version
in show, if only one was so far (`LookInv`). It rests on `StoreInv` (a report without a
version has no file to read) and on `GoodBySeen`: while the process is up, a
file becomes good only when its version is put in show, and that moment is one of the
request. A repair without publication happens in recovery only, and no request
lives through one. `AskedInv` and `ReplyInv` say what is asked and that nothing is answered
yet. `PageInv` says that the pages read so far go down to the
cursor and hold every steady report above it; a page cut at its size takes the newest rows
below the cursor, so its last one is a cursor that passes nothing over.

### Only model-checked

Every invariant and every action property that the passing runs check is a theorem. What is
left to TLC are the liveness properties `RecoveryCompletes` and `JobsEnd`, because liveness
under fairness is outside what the prover does, and of course the runs that end in a
violation. The proofs are about the modules, with every choice the environment has in them; that
the modules say what the code does is read, not proved.

## 5. What is not modelled

Strings and formats (titles, file names, JSON, HTTP headers, problem documents), HTML
and PDF parsing, tokens, logging, configuration files, schema creation, the probe
script. What a parser finds in a title or a text is a constant of the source: it gives the
true period or nothing, so a *wrong* period is outside the model. `Transport.download` (streaming, length and content checks) and the reading of bodies are
left to the environment. The limiter spaces slots and not packets: a thread that the
scheduler delays after its slot may send close to the next one, so no property speaks of
the distance of two sendings; and what the limiter knows ends with the process.
`symbol_map`, `job_items`, `report_detail` and the listings of the command line are left
out: no status, selection or file depends on them. The owner lock is a file lock of the
operating system and that it excludes is taken from there. The mock server of the
integration kit is a stand-in for tests of clients, and the command line is one `Fetch`.
In `Fetch` the downloads of the pool finish in any order, one at a time; the
temporary files are those of ArchiveStore. In `Discovery` requests that fail end the
listing, since `Transport` has done the retries by then; the ticker map of EDGAR, the
warm-up of CNINFO and the links between versions have no part in budget or coverage.
In `ClientSession` the archive changes only while the client lists or reads, because
nothing it does before looks at it; and an answer is sent when `open_artifact` has checked the
file: that `FileResponse` reads the bytes later, when they may be others, is left out. `Fetch` is
about Hong Kong; the fetches of the other markets are its steps without probes, but
their searches may stop early, and no property is claimed of them. SQLite
is taken to do what it documents: transactions are atomic and durable, a second
writer waits. The rename is taken to be atomic and durable. `Store.close` and
`JobService.stop` are called at shutdown or by tests only.

## 6. Where the code and its documents differ

Each of these is a run whose counterexample TLC prints; `PROJECT.json` quotes the lines.

* `ArchiveStoreRollback`: a refresh fails after its staging transaction; `mark_failed`
  returns early because a version is in show and leaves the intent staged; a later
  refresh publishes new content; the next start publishes the old attempt over it.
* `ArchiveStoreDegrade`: a refresh delivers the content already in show, its row goes
  back to `staged`, the rename or the last transaction fails, and the report stays
  `done` with no ready artifact.
* `JobFailed`: an error of a later security fails a job that has usable results.
* `JobLate`: a job restarted after its deadline overwrites completed results.
* `FetchWarm`: a cold fetch probes `last_n` candidates of a form, two versions of one
  report take both probes, and the fetch ends `ok` with a report older than the one it had no
  probe left for. The next fetch knows those periods, probes the rest and selects others,
  although `HK_QUARTERLY_DEFAULT_TASK.md` asks for the same from a cold and a warm archive.

Seen while reading, not turned into runs:

* `core.py:18` says that the period of a quarterly report always comes from its title, and
  only annual and interim reports are probed (`_PROBE_DOC_TYPES`), or counted as omitted. The
  adapter does let a quarterly report through whose title gives none
  (`parse_hk_title_period` returns None), so the newest report may be such a one, is put
  last, left out, and the fetch ends `ok` without a warning. `QuarterliesTitled`
  in `OkMeansNewest` names this; without it the property fails in the run `Fetch`, and the proof fails
  where `Tellable` must be the whole source. `WarmKeeps` and `PreviewAgrees` hold without it.
* The documents contradict each other about files that a crash leaves behind. `DESIGN.md:255` says
  that at a restart leftover files are not deleted automatically
  (遗留文件不自动删除或递归清理); `DESIGN.md:107`, `ITERATION_PLAN.md:62` and the tests
  (`test_store.py:240`, `test_hk_mixed_selection.py:653`) say or expect that temporary
  files are swept. The code sweeps: `_sweep_tmp` (`store.py:401`) removes every `*.part` that no
  unfinished intent names, complete files of attempts that `mark_failed` gave up included. The
  model does what the code does (`RecoverSweep`), and no property takes either side.
* A request for a file without `artifact_id` may be refused with 409 although an undamaged
  version was in show at every moment: it looks up the first version, another one is published,
  the first is delivered again and its row goes back to staged (`store.py:621-629`), and
  `open_artifact` finds it not ready (`store.py:808`). `HTTP_API.md:114` has 409 for
  a report that is not finished or whose file is missing (尚未完成或文件缺失). `SteadyAnswered` is limited to one version for this reason.
* A report whose damaged current version was written off while another version is ready keeps its
  `current_artifact_id` (`store.py:543-551`), and a repair of it that recovery abandons may
  leave it `downloading` until the next fetch. `DownloadingIsResolvable` is about reports
  without a version and does not see it.
* `mark_failed` looks at the current version only and may mark a report failed that has
  another ready one; the next fetch finds it and repairs the row.
* A fetch whose probes were skipped at the deadline may still end `ok`
  (`OkMeansNewest` leaves these out); the skipped candidates are not counted as failed.
* When `_discover` raises after a file was downloaded ahead, nobody removes that file until
  the next start.
* EDGAR computes its look-back with `date.replace`, which raises ValueError on a 29th of
  February; a history file that fails is not counted against the budget, and
  the listing may still say `exhausted`, with a warning beside it.
* The early stops count groups that hold a notice only, so a search may stop one report
  short of `last_n` (`StoppedIsEnough` says exactly when).
* In HKEXnews the second search overwrites the `truncated` of the first. It does no harm: with
  the budget spent the second is truncated too.
* A Retry-After above four times the backoff cap is cut to it, so `PauseKept` holds up to that
  cap only; the waits of the transport do not look at the deadline although DESIGN section
  10.1 says all waits do.
* The cursor of the report list is a row id and is not bound to the filters although
  HTTP_API section 5 says so.
* The example client reads the detail of a report and then downloads without naming the
  artifact: a refresh in between looks to it like a wrong checksum.
* `claim_next` does not check the row count of its update although DESIGN section 11.4
  says so.

## 7. Plan

1. Archive store and download stage, with refinement and proofs (done).
2. Job service with its abstract board, refinement and proofs (done).
3. Version selection and the period preparation around it: cold against warm archive,
   omitted candidates, status of a security, with proofs (done).
4. Transport: rate limiter under concurrent callers, retry loop, redirects, with proofs
   (done); left: `download` with its temporary file.
5. Discovery: page and window loops of the adapters under their budget, with proofs (done).
6. Paged listing, file response and the kit's client over an archive that changes, with
   proofs (done).
7. Left: the owner lock with service, command line and restart; job items, with JobService
   over ArchiveStore; the mock server as a second implementation of JobBoard.
8. Left to prove: what an `ok` means for a source that files one report in two
   versions, with the number of probes it takes; and that a list found by the HKEXnews search
   of Discovery is one that `Discover` of Fetch allows.
