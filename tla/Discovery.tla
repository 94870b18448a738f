----------------------------- MODULE Discovery -----------------------------
(***************************************************************************)
(* The searches of the three market adapters for the reports of one        *)
(* security: pages of CNINFO within a short and then a long window, the    *)
(* windows of the two searches of HKEXnews, and the history files of EDGAR *)
(* behind a list that is cached for a session.  Each has a budget of       *)
(* requests and stops when it has enough.  The source publishes meanwhile. *)
(*                                                                         *)
(* The rows of the source are numbered from the oldest on, so that a new   *)
(* row gets the next number.  What a row says (its form, dates and title)  *)
(* is abstracted to its age in years, the group of versions it belongs to, *)
(* its role, and, in Hong Kong, the search that finds it.                  *)
(***************************************************************************)
EXTENDS Naturals, FiniteSets, FiniteSetsExt, SequencesExt

CONSTANTS
    Market,        \* The adapters in use: a subset of {"CN", "HK", "US"}.
    Histories,     \* What the source may have at first: sequences of rows.
    FileCount,     \* EDGAR: history files, which hold the oldest rows.
    FileSize,      \* EDGAR: rows of a history file.
    PageSize,      \* CNINFO: rows of a page.
    RowLimit,      \* HKEXnews: rows the site shows of one window.
    LastN,         \* ReportQuery: last_n.
    Budgets,       \* ReportQuery: values of max_discovery_requests.
    Lookback,      \* ReportQuery: max_lookback_years.
    MaxRows,       \* Bound on the rows of the source.
    MaxSession, MaxListing

Search == {"results", "report"}

\* EDGAR: how many of the oldest rows are in history files.
Archived == FileCount * FileSize

Row == [age : Nat, group : Nat, role : {"full", "notice", "summary"}, search : Search]

ASSUME MarketAssumption == Market \subseteq {"CN", "HK", "US"}

\* The rows of a history are in the order of their filing, and EDGAR has the
\* newest of them in no history file.
ASSUME HistoryAssumption ==
    /\ Histories \subseteq Seq(Row)
    /\ \A h \in Histories :
         /\ Archived < Len(h) /\ Len(h) <= MaxRows
         /\ \A i, j \in DOMAIN h : i <= j => h[j].age <= h[i].age

ASSUME SizeAssumption ==
    /\ {FileSize, PageSize, RowLimit, LastN, Lookback} \cup Budgets \subseteq Nat \ {0}
    /\ {FileCount, MaxRows, MaxSession, MaxListing} \subseteq Nat

VARIABLES
    market,       \* The adapter.
    leapDay,      \* Today is a 29th of February.
    forms,        \* ReportQuery: the searches that find a requested form.
    budget,       \* ReportQuery: max_discovery_requests.
    rows,         \* Source: its rows, the oldest first.
    submissions,  \* USEdgarAdapter: _submissions_cache, the rows it stands for.
    search,       \* HKHkexnewsAdapter.list_reports: which of its searches runs.
    todo,         \* list_reports: windows or history files that are still to be read.
    page,         \* CNCninfoAdapter.list_reports: page.
    used,         \* list_reports: used_requests, requests_used.
    seen,         \* list_reports: candidates, by the numbers of their rows.
    truncated,    \* DiscoveryResult.truncated.
    exhausted,    \* DiscoveryResult.exhausted.
    warned,       \* DiscoveryResult.warnings, by kind.
    pc,           \* Control state of the adapter.
    sent,         \* History: requests the budget is for, failed ones included.
    cut,          \* History: the site has shown only a part of a window.
    start,        \* History: how many rows the source had when this listing read first.
    opened,       \* History: how many rows the source had when the session began.
    sessions, listings

query == <<market, leapDay, forms, budget>>
source == <<query, rows>>
answer == <<seen, truncated, exhausted, warned>>
history == <<start, opened, sessions, listings>>
vars == <<source, submissions, search, todo, page, used, answer, pc, sent, cut, history>>

Window == [from : Nat, to : Nat]

TypeOK ==
    /\ market \in Market /\ leapDay \in BOOLEAN /\ forms \in SUBSET Search
    /\ budget \in Budgets
    /\ rows \in Seq(Row) /\ Len(rows) <= MaxRows
    /\ {seen, submissions} \subseteq SUBSET (DOMAIN rows)
    /\ search \in Search /\ todo \in Seq(Window) /\ page \in 1..(Len(rows) + 1)
    /\ used \in 0..budget /\ sent \in Nat
    /\ {truncated, exhausted, cut} \subseteq BOOLEAN
    /\ warned \subseteq {"budget", "history"}
    /\ pc \in {"idle", "resolved", "list", "done", "failed", "raised"}
    /\ {start, opened} \subseteq 0..Len(rows)

Init ==
    /\ market \in Market /\ leapDay \in BOOLEAN
    /\ forms \in IF market = "HK" THEN {Search, {"results"}, {"report"}} ELSE {Search}
    /\ budget \in Budgets /\ rows \in Histories
    /\ submissions = {} /\ search = "results" /\ todo = <<>> /\ page = 1 /\ used = 0
    /\ seen = {} /\ truncated = FALSE /\ exhausted = FALSE /\ warned = {}
    /\ pc = "idle" /\ sent = 0 /\ cut = FALSE
    /\ start = 0 /\ opened = Len(rows) /\ sessions = 0 /\ listings = 0

-----------------------------------------------------------------------------
(* Rows, windows and groups *)

\* The rows of the search at hand that were filed in a window of years.
In(window) ==
    {i \in DOMAIN rows :
        /\ window.from <= rows[i].age /\ rows[i].age < window.to
        /\ market = "HK" => rows[i].search = search}

\* HKEXnews: the rows that are of a form asked for, and kept by the search at
\* hand; the others of a search for result announcements are evidence only.
HkCandidates(found) == {i \in found : rows[i].search \in forms}

\* The n-th block of the given size, the newest rows first.
Block(set, size, n) ==
    {i \in set : LET newer == Cardinality({j \in set : j > i})
                 IN (n - 1) * size <= newer /\ newer < n * size}

\* The groups of candidates: a summary does not count in CNINFO.
GroupCount(candidates) ==
    Cardinality({rows[i].group : i \in {j \in candidates :
                                          market = "CN" => rows[j].role # "summary"}})

Whole == [from |-> 0, to |-> Lookback]

\* CNINFO: the years that last_n quarters need and one more, then all years.
CnWindows ==
    LET stage == Min({Lookback, ((LastN + 3) \div 4) + 1})
    IN <<[from |-> 0, to |-> stage]>> \o (IF stage < Lookback THEN <<Whole>> ELSE <<>>)

\* _split_year_windows, the newest year first.
Years(window) ==
    [k \in 1..(window.to - window.from) |->
        [from |-> window.from + k - 1, to |-> window.from + k]]

\* Mutant: the history files are read from the oldest on.
FilesAscending ==
    [k \in 1..FileCount |->
        [from |-> (k - 1) * FileSize, to |-> k * FileSize]]

\* EDGAR: the history files, by the numbers of their rows, the newest first.
Files ==
    [k \in 1..FileCount |->
        [from |-> Archived - k * FileSize, to |-> Archived - (k - 1) * FileSize]]

\* EDGAR: the rows of the submissions that are in no history file.
Recent == {i \in submissions : i > Archived}

\* EDGAR: the candidates of a history file.
InFile(file) == {i \in DOMAIN rows : file.from < i /\ i <= file.to}

-----------------------------------------------------------------------------
(* Sessions and the source *)

\* The source publishes a report, or a notice on an old one.
Publish ==
    /\ Len(rows) < MaxRows
    /\ \E row \in [age : {0}, group : {1, Len(rows) + 1}, role : {"full", "notice"},
                   search : IF market = "HK" THEN Search ELSE {"report"}] :
          /\ row.group = 1 <=> row.role = "notice"
          /\ rows' = Append(rows, row)
    /\ UNCHANGED <<query, submissions, search, todo, page, used, answer, pc,
                   sent, cut, history>>

Resting == pc \in {"idle", "done", "failed", "raised"}

\* Mutant: the adapters live on in the next session.
KeptAdapters == submissions

\* begin_discovery_session forgets the adapters.
NewAdapters == {}

BeginSession ==
    /\ Resting /\ sessions < MaxSession
    /\ submissions' = NewAdapters
    /\ opened' = Len(rows) /\ sessions' = sessions + 1
    /\ pc' = "idle"
    /\ UNCHANGED <<source, search, todo, page, used, answer, sent, cut, start, listings>>

\* resolve: EDGAR reads the submissions once per session, and keeps them only
\* if they are well formed.
Resolve ==
    /\ Resting /\ listings < MaxListing
    /\ listings' = listings + 1
    /\ \/ /\ submissions' = IF market = "US" /\ submissions = {} THEN DOMAIN rows
                                                               ELSE submissions
          /\ pc' = "resolved"
       \/ /\ pc' = "failed"
          /\ UNCHANGED submissions
    /\ seen' = {} /\ truncated' = FALSE /\ exhausted' = FALSE /\ warned' = {}
    /\ used' = 0 /\ sent' = 0 /\ cut' = FALSE /\ search' = "results" /\ todo' = <<>> /\ page' = 1
    /\ UNCHANGED <<source, start, opened, sessions>>

\* list_reports up to its loop.  EDGAR has the recent rows at hand and needs
\* its files only if their groups are too few; the limit of the look-back
\* cannot be computed on a 29th of February.
StartListing ==
    /\ pc = "resolved"
    /\ IF market = "US"
       THEN LET recent == Recent
                enough == GroupCount(recent) >= LastN
            IN /\ seen' = recent
               /\ todo' = IF enough \/ leapDay THEN <<>> ELSE Files
               /\ pc' = IF enough THEN "done" ELSE IF leapDay THEN "raised" ELSE "list"
               /\ start' = Cardinality(submissions)
               /\ used' = 1 /\ sent' = 1
       ELSE /\ todo' = IF market = "CN" THEN CnWindows ELSE <<Whole>>
            /\ pc' = "list"
            /\ start' = Len(rows)
            /\ UNCHANGED <<seen, used, sent>>
    /\ UNCHANGED <<source, submissions, search, page, truncated, exhausted, warned, cut, opened,
                   sessions, listings>>

-----------------------------------------------------------------------------
(* The loops *)

\* Mutant: the budget is compared by > instead of >=.
RequestOver ==
    /\ pc = "list" /\ todo # <<>> /\ used <= budget
    /\ sent' = sent + 1

\* One more request, of all the loops.
Request ==
    /\ pc = "list" /\ todo # <<>> /\ used < budget
    /\ sent' = sent + 1

\* Mutant: the flag of an earlier window of CNINFO stays.
StaleExhausted == exhausted

\* exhausted when the budget is spent, whatever a shorter window was.
SpentExhausted == FALSE

\* The budget is spent with something left to read: the loop ends.
BudgetSpent ==
    /\ pc = "list" /\ todo # <<>> /\ used >= budget
    /\ truncated' = TRUE /\ exhausted' = SpentExhausted
    /\ warned' = warned \cup {"budget"}
    /\ todo' = <<>>
    /\ pc' = IF market = "HK" THEN "list" ELSE "done"
    /\ UNCHANGED <<source, submissions, search, page, used, seen, sent, cut, history>>

\* A request fails for good, or its answer has another form than agreed.
RequestFails ==
    /\ Request
    /\ pc' = "failed"
    /\ UNCHANGED <<source, submissions, search, todo, page, used, answer, cut, history>>

\* CNINFO: a page of the window; after the last page enough groups end the
\* search, and too few widen it.
CnPage ==
    /\ Request /\ market = "CN"
    /\ used' = used + 1
    /\ LET window == In(Head(todo))
           more == Cardinality(window) > page * PageSize
           enough == GroupCount(seen') >= LastN
       IN /\ seen' = seen \cup Block(window, PageSize, page)
          /\ IF more
             THEN page' = page + 1 /\ UNCHANGED <<todo, exhausted, pc>>
             ELSE /\ page' = 1
                  /\ todo' = IF enough THEN <<>> ELSE Tail(todo)
                  /\ exhausted' = (Len(todo) = 1 \/ ~enough)
                  /\ pc' = IF todo' = <<>> THEN "done" ELSE "list"
    /\ UNCHANGED <<source, submissions, search, truncated, warned, cut, history>>

\* HKEXnews: a window with more rows than the site shows is split into years;
\* of one year the site's first rows are all there is.
HkWindow ==
    /\ Request /\ market = "HK"
    /\ used' = used + 1
    /\ LET window == Head(todo)
           large == Cardinality(In(window)) > RowLimit
       IN IF large /\ window.to - window.from > 1
          THEN todo' = Years(window) \o Tail(todo) /\ UNCHANGED <<seen, cut>>
          ELSE /\ todo' = Tail(todo)
               /\ seen' = seen \cup HkCandidates(Block(In(window), RowLimit, 1))
               /\ cut' = (cut \/ large)
    /\ UNCHANGED <<source, submissions, search, page, truncated, exhausted, warned, pc, history>>

\* Mutant: each search has the whole budget.
UsedAgain == 0

\* What the second search is told of the requests of the first.
UsedSoFar == used

\* HKEXnews: the search for result announcements is followed by the one for
\* reports, which replaces truncated by its own.
HkNextSearch ==
    /\ pc = "list" /\ todo = <<>> /\ market = "HK"
    /\ IF search = "results" /\ "report" \in forms
       THEN /\ search' = "report" /\ todo' = <<Whole>>
            /\ used' = UsedSoFar
            /\ truncated' = FALSE
            /\ UNCHANGED <<exhausted, pc>>
       ELSE /\ exhausted' = ~truncated /\ pc' = "done"
            /\ UNCHANGED <<search, todo, used, truncated>>
    /\ UNCHANGED <<source, submissions, page, seen, warned, sent, cut, history>>

\* EDGAR: the newest row of the next file is older than the look-back.
TooOld(file) == rows[file.to].age >= Lookback

\* EDGAR: a history file; enough groups end the search.
UsFile ==
    /\ Request /\ market = "US" /\ ~TooOld(Head(todo))
    /\ used' = used + 1
    /\ seen' = seen \cup InFile(Head(todo))
    /\ IF GroupCount(seen') >= LastN THEN todo' = <<>> /\ pc' = "done"
                                     ELSE todo' = Tail(todo) /\ UNCHANGED pc
    /\ UNCHANGED <<source, submissions, search, page, truncated, exhausted, warned, cut, history>>

\* EDGAR: a file that answers with an error status is left out with a warning,
\* and its request is not counted.
UsFileFails ==
    /\ Request /\ market = "US" /\ ~TooOld(Head(todo))
    /\ warned' = warned \cup {"history"}
    /\ todo' = Tail(todo)
    /\ UNCHANGED <<source, submissions, search, page, used, seen, truncated, exhausted, pc, cut,
                   history>>

\* EDGAR: no file within the look-back is left.
UsFilesEnd ==
    /\ pc = "list" /\ market = "US"
    /\ todo # <<>> => used < budget /\ TooOld(Head(todo))
    /\ exhausted' = TRUE /\ pc' = "done" /\ todo' = <<>>
    /\ UNCHANGED <<source, submissions, search, page, used, seen, truncated, warned, sent, cut,
                   history>>

Next ==
    \/ Publish \/ BeginSession \/ Resolve \/ StartListing \/ BudgetSpent \/ RequestFails
    \/ CnPage \/ HkWindow \/ HkNextSearch \/ UsFile \/ UsFileFails \/ UsFilesEnd

Spec == Init /\ [][Next]_vars

-----------------------------------------------------------------------------
(* Properties *)

\* Row i is of a requested form and within the look-back.
Asked(i) == rows[i].age < Lookback /\ (market = "HK" => rows[i].search \in forms)

\* The rows the listing is about: those of the source when it first read.
Wanted == {i \in 1..start : Asked(i)}

\* No more requests are sent than the budget allows, whatever searches share
\* it; only EDGAR's files that failed come on top.
BudgetKept == sent <= budget + (IF "history" \in warned THEN FileCount ELSE 0)

\* exhausted is no empty word: every wanted row was read, but for the files
\* of EDGAR that a warning names and the years that are too long for the site.
ExhaustedIsAll ==
    pc = "done" /\ exhausted /\ "history" \notin warned /\ ~cut => Wanted \subseteq seen

\* truncated comes with its warning and never with exhausted.
TruncatedIsTold ==
    pc = "done" /\ (truncated \/ "budget" \in warned) =>
        ~exhausted /\ truncated /\ "budget" \in warned

\* A search that is neither has stopped because it had enough to select from:
\* LastN groups with a full report, unless it took a lone notice for one.
StoppedIsEnough ==
    LET groupsOf(role) == {rows[i].group : i \in {j \in seen : rows[j].role = role}}
    IN pc = "done" /\ ~truncated /\ ~exhausted =>
          \/ Cardinality(groupsOf("full")) >= LastN
          \/ groupsOf("notice") \cup groupsOf("summary") # {}

\* The coverage that a listing reports is true.
CoverageHonest == ExhaustedIsAll /\ TruncatedIsTold /\ StoppedIsEnough

\* A listing that leaves rows unread leaves the oldest: the newest LastN of what
\* it returns are the newest there are (per search in Hong Kong).
KeepsNewest ==
    pc = "done" /\ "history" \notin warned /\ ~cut =>
        \A i \in Wanted \ seen, j \in seen :
           i < j \/ (market = "HK" /\ rows[i].search # rows[j].search)

\* A listing sees what was published before its session began: the newest row
\* it was asked for, or one that is newer; the cache of EDGAR is not older than
\* the session.
SessionSeesNew ==
    pc = "done" /\ ~truncated /\ ~cut =>
        \A i \in 1..opened : Asked(i) =>
           \E j \in seen : j >= i /\ (market = "HK" => rows[j].search = rows[i].search)

=============================================================================
