------------------------------- MODULE Fetch -------------------------------
(***************************************************************************)
(* The fetch of one Hong Kong security, repeated over one archive: core.py *)
(* from the list of candidates to the status of the result.  A fetch selects *)
(* the newest reports by report period, and a Hong Kong report tells its   *)
(* period only in its text: the fetch fills in the periods the archive     *)
(* knows, reads a bounded number of the others out of downloaded files,    *)
(* falls back on the titles of announcements, selects, prepares, downloads *)
(* and sums up.  What it learnt stays in the archive for the next fetch.   *)
(* The other markets have no probes, and their searches may stop early.    *)
(*                                                                         *)
(* The source is a constant of the behaviour, the variable world: each     *)
(* report has a true period, which its title, its text and an announcement *)
(* may each give or not.  Archive keeping is ArchiveStore's subject: here  *)
(* a report is held or not.                                                *)
(***************************************************************************)
EXTENDS Selection

CONSTANTS
    Source,      \* The reports of the security, numbers in the order of source_id.
    Worlds,      \* What the source may have: functions from Source to reports.
    LastN,       \* last_n: how many reports a fetch selects.
    Preference,  \* default_language_preference: a sequence of languages.
    MaxFetch,    \* Bound on the fetches.
    MaxFault     \* Bound on failing steps and process deaths.

\* _PROBE_DOC_TYPES: the forms whose period may be read from the text.
ProbeForm == {"ANNUAL", "INTERIM"}

ReportOf == [form : ProbeForm \cup {"QTR-HK"}, period : Nat \ {NoPeriod}, filed : Nat,
             titled : BOOLEAN, readable : BOOLEAN, announced : BOOLEAN,
             amended : BOOLEAN, role : Role, language : {"zh", "en"}]

ASSUME SourceAssumption == Source \subseteq Nat /\ IsFiniteSet(Source)
ASSUME WorldsAssumption == Worlds \subseteq [Source -> ReportOf]
ASSUME PreferenceAssumption == Preference \in Seq(STRING)
ASSUME LimitAssumption == {LastN, MaxFetch, MaxFault} \subseteq Nat

VARIABLES
    world,       \* What the source has.
    fact,        \* Manifest: report_period and period_source of each report.
    held,        \* Manifest and artifacts: reports that are done with a ready file.
    known,       \* Report objects: report_period and period_source of each candidate.
    listing,     \* discovery.reports: the candidates of this fetch.
    truncated,   \* discovery.truncated.
    first,       \* _prepare_selection_periods: the first key of by_type.
    pool,        \* _prepare_selection_periods: the rest of probe_pool.
    prefetched,  \* _prepare_selection_periods: reports with a checked temporary file.
    failures,    \* _prepare_selection_periods: probe_failures.
    selected,    \* SelectionResult.selected.
    items,       \* FetchResult.items: the outcome of each selected report.
    warnings,    \* FetchResult.warnings, by kind.
    status,      \* FetchResult.status, "raised" when the fetch was cut short.
    refresh,     \* fetch: the argument refresh.
    late,        \* Clock: deadline_ts has passed.
    pc,          \* Control state of the fetch.
    skipped,     \* _prepare_selection_periods: deadline_skipped.
    troubled,    \* History: a step of this fetch has failed, or its deadline passed.
    lastOk,      \* History: what the latest fetch with status ok selected.
    fetches, faults

archive == <<fact, held>>
probe == <<pool, prefetched, failures, skipped>>
result == <<selected, items, warnings, status>>
input == <<world, listing, truncated, first, refresh, fetches>>
vars == <<archive, known, probe, result, input, late, pc, troubled, lastOk, faults>>

NoFact == [period |-> NoPeriod, source |-> "unknown"]

FactOf(s, source) == [period |-> world[s].period, source |-> source]

PeriodFact == [period : Nat, source : {"unknown", "explicit_title", "document", "announcement_title"}]

Item == {"todo", "pending", "cached", "downloaded", "failed"}

TypeOK ==
    /\ world \in Worlds
    /\ fact \in [Source -> PeriodFact] /\ known \in [Source -> PeriodFact]
    /\ \A s \in Source : \A f \in {fact[s], known[s]} :
          f = NoFact \/ (f.source # "unknown" /\ f.period = world[s].period)
    /\ held \subseteq Source /\ listing \subseteq Source
    /\ pool \subseteq listing /\ first \in ProbeForm
    /\ prefetched \subseteq listing \ held
    /\ failures \subseteq listing
    /\ selected \subseteq listing /\ Cardinality(selected) <= LastN
    /\ items \in [selected -> Item]
    /\ warnings \subseteq {"no_full", "unmerged", "language", "period_unknown", "omitted"}
    /\ status \in {"none", "ok", "partial", "empty", "failed", "raised"}
    /\ {truncated, refresh, late, skipped, troubled} \subseteq BOOLEAN
    /\ pc \in {"idle", "discover", "probe", "prepare", "download", "close"}
    /\ fetches \in 0..MaxFetch /\ faults \in 0..MaxFault

Init ==
    /\ world \in Worlds
    /\ fact = [s \in Source |-> NoFact] /\ held = {}
    /\ known = [s \in Source |-> NoFact]
    /\ pool = {} /\ prefetched = {} /\ failures = {} /\ skipped = FALSE
    /\ selected = {} /\ items = <<>> /\ warnings = {} /\ status = "none"
    /\ listing = {} /\ truncated = FALSE /\ first = "ANNUAL" /\ refresh = FALSE /\ fetches = 0
    /\ late = FALSE /\ pc = "idle" /\ troubled = FALSE /\ lastOk = {} /\ faults = 0

-----------------------------------------------------------------------------
(* Candidates and the selection *)

\* What an adapter's title parser says of a report.
TitleFact(s) == IF world[s].titled THEN FactOf(s, "explicit_title") ELSE NoFact

\* Mutant: periods of the archive are not filled in.
NotBackfilled == [s \in Source |-> TitleFact(s)]

\* _backfill_periods_from_store: what the archive trusts, where the source
\* does not say.
Backfilled == [s \in Source |-> IF TitleFact(s) = NoFact THEN fact[s] ELSE TitleFact(s)]

\* The exchange tells no time of acceptance.
Candidates(reports, facts) ==
    {[id |-> s, form |-> world[s].form, period |-> facts[s].period,
      filed |-> world[s].filed, amended |-> world[s].amended, accepted |-> NoDate,
      role |-> world[s].role, language |-> world[s].language] : s \in reports}

Select(reports, facts) == SelectReports(Candidates(reports, facts), LastN, Preference)

UnknownOf(form, reports, facts) ==
    {s \in reports : world[s].form = form /\ facts[s] = NoFact}

\* Mutant: the pool is sorted without reverse=True.
FiledEarlier(s, t) == world[s].filed < world[t].filed

FiledLater(s, t) ==
    \/ world[s].filed > world[t].filed
    \/ world[s].filed = world[t].filed /\ s > t

\* The latest filed LastN candidates of unknown period of each form.
ProbePool(reports, facts) ==
    UNION {{s \in UnknownOf(form, reports, facts) :
              Cardinality({t \in UnknownOf(form, reports, facts) : FiledLater(t, s)}) < LastN} :
           form \in ProbeForm}

\* One form after the other, the form that the listing has first and of each
\* form the latest filed.
ProbedBefore(s, t) ==
    IF world[s].form = world[t].form THEN FiledLater(s, t) ELSE world[s].form = first

-----------------------------------------------------------------------------
(* Steps of a fetch *)

\* A step that fails takes one from the budget of faults.
Fault ==
    /\ faults < MaxFault
    /\ faults' = faults + 1
    /\ troubled' = TRUE

NoFault == UNCHANGED <<faults, troubled>>

Begin ==
    /\ pc = "idle" /\ fetches < MaxFetch
    /\ fetches' = fetches + 1 /\ pc' = "discover"
    /\ refresh' \in BOOLEAN
    /\ listing' = {} /\ truncated' = FALSE /\ first' = "ANNUAL"
    /\ pool' = {} /\ prefetched' = {} /\ failures' = {} /\ skipped' = FALSE
    /\ selected' = {} /\ items' = <<>> /\ warnings' = {} /\ status' = "none"
    /\ late' = FALSE /\ troubled' = FALSE
    /\ known' = [s \in Source |-> NoFact]
    /\ UNCHANGED <<archive, world, lastOk, faults>>

\* The deadline of the job passes.
Expire ==
    /\ pc # "idle" /\ ~late
    /\ late' = TRUE /\ troubled' = TRUE
    /\ UNCHANGED <<archive, known, probe, result, input, pc, lastOk, faults>>

\* The deadline has passed before the security's turn, or the source fails.
DiscoverFails ==
    /\ pc = "discover"
    /\ IF late THEN NoFault ELSE Fault
    /\ status' = "failed" /\ pc' = "close"
    /\ UNCHANGED <<archive, known, probe, selected, items, warnings, input, late, lastOk>>

\* _discover up to the probes.  A search that was not truncated has seen every
\* report; the listing may have either form first.
Discover ==
    /\ pc = "discover" /\ ~late
    /\ \E found \in {Source} \cup {Source \ {s} : s \in Source} :
          /\ listing' = found
          /\ truncated' = (found # Source)
          /\ pool' = ProbePool(found, Backfilled)
          /\ first' \in IF pool' = {} THEN {first} ELSE {world[s].form : s \in pool'}
    /\ known' = Backfilled
    /\ pc' = "probe"
    /\ NoFault
    /\ UNCHANGED <<archive, prefetched, failures, skipped, result, world, refresh, fetches,
                   late, lastOk>>

\* The rest of the pool is left alone once the deadline has passed.
SkipProbes ==
    /\ pc = "probe" /\ pool # {} /\ late
    /\ pool' = {} /\ skipped' = TRUE
    /\ NoFault
    /\ UNCHANGED <<archive, known, prefetched, failures, result, input, late, pc, lastOk>>

\* _extract_probe_period: what the text of a report says.
TextFact(s) == IF world[s].readable THEN FactOf(s, "document") ELSE NoFact

\* archived_path of archived_periods: the file of s is there to be read.
InArchive(s) == s \in held

\* enrich_report_period: a period is written down only if none is known.
Enriched(new, old) == IF old = NoFact THEN new ELSE old

\* _effective_period: an unknown period never replaces a known one.
Effective(new, old) == IF new = NoFact THEN old ELSE new

\* The period of s, if its text gives one, is kept in the report object and,
\* unless the write fails, in the manifest.
Learn(s) ==
    /\ known' = [known EXCEPT ![s] = TextFact(s)]
    /\ \/ /\ fact' = [fact EXCEPT ![s] = IF InArchive(s) THEN Enriched(TextFact(s), @)
                                                       ELSE Effective(TextFact(s), @)]
          /\ NoFault
       \/ /\ TextFact(s) # NoFact
          /\ Fault
          /\ UNCHANGED fact
    /\ failures' = IF TextFact(s) = NoFact THEN failures \cup {s} ELSE failures

\* The download of s fails, or the reading of its file.
NotRead(s) ==
    /\ Fault
    /\ failures' = failures \cup {s}
    /\ UNCHANGED <<fact, known>>

\* An archived candidate is read from the archive, another one is downloaded
\* to a temporary file first.
Probe ==
    /\ pc = "probe" /\ ~late
    /\ \E s \in pool :
          /\ \A t \in pool \ {s} : ProbedBefore(s, t)
          /\ pool' = pool \ {s}
          /\ \/ /\ Learn(s) \/ NotRead(s)
                /\ prefetched' = IF InArchive(s) THEN prefetched ELSE prefetched \cup {s}
             \/ NotRead(s) /\ UNCHANGED prefetched
    /\ UNCHANGED <<held, skipped, result, input, late, pc, lastOk>>

\* period_evidence: what the title of an announcement of results says.
Evidence(s) == IF world[s].announced THEN FactOf(s, "announcement_title") ELSE NoFact

\* _apply_period_evidence: announcements give the period of reports that are
\* still without one, probed or not.
Rescued == {s \in listing : world[s].form \in ProbeForm /\ known[s] = NoFact /\ Evidence(s) # NoFact}

WithEvidence(rescued) ==
    [s \in Source |-> IF s \in rescued THEN Evidence(s) ELSE known[s]]

\* Mutant: only failures filed after the newest selected report count.
OmittedNewer(failed, chosen) ==
    {s \in failed \ chosen : chosen # {} /\ \A t \in chosen : world[s].filed > world[t].filed}

\* _omitted_probe_failures: failed probes that are not provably too old.
Omitted(failed, chosen) ==
    LET dates == {world[t].filed : t \in chosen} \ {NoDate}
    IN {s \in failed \ chosen :
          /\ chosen # {} /\ world[s].filed # NoDate
          /\ dates # {} => world[s].filed >= Min(dates)}

SelectStep ==
    /\ pc = "probe" /\ pool = {}
    /\ LET facts == WithEvidence(Rescued)
           chosen == Select(listing, facts)
           omitted == Omitted({s \in failures : facts[s] = NoFact}, chosen)
       IN /\ known' = facts
          /\ selected' = chosen
          /\ items' = [s \in chosen |-> "todo"]
          /\ warnings' = SelectionWarnings(Candidates(listing, facts), chosen, Preference)
                           \cup {w \in {"omitted"} : omitted # {}}
          /\ status' = IF chosen = {} THEN "empty" ELSE "ok"
    /\ pc' = "prepare"
    /\ NoFault
    /\ UNCHANGED <<archive, probe, input, late, lastOk>>

\* _sync_report_period: the period the manifest has after upsert_report.
Synced(s) == [known EXCEPT ![s] = Effective(@, fact[s])]

\* _maybe_enrich_period: a report that was selected with an unknown period and
\* whose text gives it.
Enrichable(s, facts) == world[s].form \in ProbeForm /\ facts[s] = NoFact /\ world[s].readable

\* The best period of s after its file is there.
Best(s, facts) == IF Enrichable(s, facts) THEN TextFact(s) ELSE facts[s]

\* Mutant: the report object takes the period before the write is known to hold.
StoreHopefully(s, facts) ==
    /\ known' = [facts EXCEPT ![s] = Best(s, facts)]
    /\ \/ fact' = [fact EXCEPT ![s] = Best(s, facts)] /\ NoFault
       \/ Enrichable(s, facts) /\ fact' = [fact EXCEPT ![s] = facts[s]] /\ Fault

\* The report object and the manifest of s, with the periods facts of the
\* objects: the enrichment changes both or, if its write fails, neither.
StorePeriods(s, facts) ==
    \/ /\ known' = [facts EXCEPT ![s] = Best(s, facts)]
       /\ fact' = [fact EXCEPT ![s] = Best(s, facts)]
       /\ NoFault
    \/ /\ Enrichable(s, facts)
       /\ known' = facts
       /\ fact' = [fact EXCEPT ![s] = facts[s]]
       /\ Fault

\* _prepare_archive of a report that the archive holds intact.
PrepareCached(s) ==
    /\ s \in held /\ ~refresh
    /\ items' = [items EXCEPT ![s] = "cached"]
    /\ StorePeriods(s, Synced(s))
    /\ UNCHANGED held

\* _prepare_archive of a report that is to be downloaded: it is not held, its
\* file is found damaged, or it is refreshed.
PrepareDownload(s) ==
    /\ items' = [items EXCEPT ![s] = "pending"]
    /\ IF s \in held /\ ~refresh THEN Fault /\ held' = held \ {s} ELSE NoFault /\ UNCHANGED held
    /\ known' = Synced(s)
    /\ fact' = [fact EXCEPT ![s] = Synced(s)[s]]

\* _prepare_archive when the store fails, before or after the upsert.
PrepareFails(s) ==
    /\ Fault
    /\ items' = [items EXCEPT ![s] = "failed"]
    /\ \/ UNCHANGED <<known, fact>>
       \/ known' = Synced(s) /\ fact' = [fact EXCEPT ![s] = Synced(s)[s]]
    /\ UNCHANGED held

Prepare ==
    /\ pc = "prepare"
    /\ \E s \in selected :
          /\ items[s] = "todo"
          /\ PrepareCached(s) \/ PrepareDownload(s) \/ PrepareFails(s)
    /\ UNCHANGED <<probe, selected, warnings, status, input, late, pc, lastOk>>

\* All reports are prepared: the pending ones fail if the deadline has passed.
StartDownloads ==
    /\ pc = "prepare" /\ \A s \in selected : items[s] # "todo"
    /\ items' = [s \in selected |->
                    IF late /\ items[s] = "pending" THEN "failed" ELSE items[s]]
    /\ pc' = "download"
    /\ NoFault
    /\ UNCHANGED <<archive, known, probe, selected, warnings, status, input, late, lastOk>>

\* _run_download, in any order: a prefetched file is used instead of a
\* download.  A refresh that fails may take a held report out of service.
Download ==
    /\ pc = "download"
    /\ \E s \in selected :
          /\ items[s] = "pending"
          /\ \/ /\ items' = [items EXCEPT ![s] = "downloaded"]
                /\ held' = held \cup {s}
                /\ prefetched' = prefetched \ {s}
                /\ StorePeriods(s, known)
             \/ /\ Fault
                /\ items' = [items EXCEPT ![s] = "failed"]
                /\ held' \in {held, held \ {s}}
                /\ UNCHANGED <<fact, known, prefetched>>
    /\ UNCHANGED <<pool, failures, skipped, selected, warnings, status, input, late, pc, lastOk>>

Usable == {s \in selected : items[s] \in {"cached", "downloaded"}}

\* _apply_period_warnings: unknown periods count if they are still unknown.
FinalWarnings ==
    (warnings \ {"period_unknown"})
       \cup {w \in {"period_unknown"} : \E s \in Usable : known[s] = NoFact}

\* _finalize_status, with the status so far.
FinalStatus ==
    IF status \in {"empty", "failed"} THEN status
    ELSE IF Usable = {} THEN "failed"
    ELSE IF \/ Usable # selected \/ FinalWarnings # {} \/ truncated
            \/ Cardinality(selected) < LastN
         THEN "partial"
    ELSE "ok"

\* The result is summed up and temporary files that nothing used are removed.
Close ==
    /\ pc \in {"download", "close"} /\ \A s \in selected : items[s] # "pending"
    /\ warnings' = FinalWarnings
    /\ status' = FinalStatus
    /\ lastOk' = IF FinalStatus = "ok" /\ ~skipped THEN selected ELSE lastOk
    /\ prefetched' = {}
    /\ pc' = "idle"
    /\ NoFault
    /\ UNCHANGED <<archive, known, pool, failures, skipped, selected, items, input, late>>

\* An exception that no step catches, or the death of the process.
Interrupted ==
    /\ pc # "idle"
    /\ Fault
    /\ status' = "raised" /\ pc' = "idle"
    /\ prefetched' = {}
    /\ UNCHANGED <<archive, known, pool, failures, skipped, selected, items, warnings, input,
                   late, lastOk>>

Next ==
    \/ Begin \/ Expire \/ DiscoverFails \/ Discover \/ SkipProbes \/ Probe \/ SelectStep
    \/ Prepare \/ StartDownloads \/ Download \/ Close \/ Interrupted

Spec == Init /\ [][Next]_vars

-----------------------------------------------------------------------------
(* Properties *)

FullReports == {s \in Source : world[s].role \in FullRole}

\* What the user asks for: the newest LastN full reports by their true period.
NewestReports ==
    {s \in FullReports :
        Cardinality({t \in FullReports : world[t].period > world[s].period}) < LastN}

\* Reports are filed in the order of their periods, at known dates, one report
\* for each period.
Orderly ==
    \A s, t \in Source :
       /\ world[s].filed # NoDate
       /\ world[s].filed > world[t].filed <=> world[s].period > world[t].period
       /\ s # t => world[s].period # world[t].period

\* core.py takes it that the title of a quarterly report always gives its period.
QuarterliesTitled == \A s \in Source : world[s].form \notin ProbeForm => world[s].titled

\* The status ok is earned: unless probes were skipped at the deadline, a fetch
\* of an orderly source that ends ok has selected exactly the newest reports,
\* and the archive holds them, whatever was known before, readable or failed.
OkMeansNewest ==
    pc = "idle" /\ status = "ok" /\ ~skipped /\ Orderly /\ QuarterliesTitled
       => selected = NewestReports /\ selected \subseteq held

FetchEnds == pc # "idle" /\ pc' = "idle" /\ status' # "raised"

\* A warm archive does not change the selection: when a fetch of an orderly
\* source has ended ok, a later one in which nothing fails selects the same
\* reports, although it probes others and finds other periods filled in.
WarmKeeps ==
    [][FetchEnds /\ Orderly /\ lastOk # {} /\ ~troubled /\ listing = Source
         => selected = lastOk]_vars

\* preview, with the archive as it is: a selection without any probe.
PreviewReports == Select(Source, Backfilled)

\* A preview shows what the fetch that ended ok has archived: the fetch wrote
\* down every period its selection rested on.
PreviewAgrees ==
    pc = "idle" /\ status = "ok" /\ ~skipped /\ Orderly => PreviewReports = selected

\* The manifest and the report object tell the same period of every report
\* that a finished fetch hands out, failed writes included.
ResultAgrees ==
    pc = "idle" /\ status # "raised" => \A s \in Usable : known[s] = fact[s]

\* A period the manifest trusts is there for good: no later fetch, with or
\* without a readable text, replaces it or loses it (_effective_period,
\* enrich_report_period).
PeriodsStay == [][\A s \in Source : fact[s] # NoFact => fact'[s] = fact[s]]_vars

\* A fetch of a cold archive and one of the warm archive it leaves select the
\* same reports of the same source, when both end ok and nothing failed.
ColdAndWarmAgree ==
    [][FetchEnds /\ status' = "ok" /\ lastOk # {} /\ ~troubled => selected = lastOk]_vars

=============================================================================
