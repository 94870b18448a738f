------------------------------ MODULE MCFetch ------------------------------
(* Instances of Fetch for TLC: which sources there may be. *)
EXTENDS Fetch

\* A report of period and filing date n; how its period is known.
Report(form, n, how) ==
    [form |-> form, period |-> n, filed |-> n,
     titled |-> how = "titled", readable |-> how \in {"readable", "both"},
     announced |-> how \in {"announced", "both"},
     amended |-> FALSE, role |-> "full_report", language |-> "zh"]

\* The reports that may stand at each place of an orderly source, 1 the oldest.
At(n) ==
    {Report("QTR-HK", n, "titled"), Report("ANNUAL", n, "readable")}
       \cup {Report("ANNUAL", i, how) : i \in {n} \ {1}, how \in {"unreadable", "announced"}}
       \cup {Report("INTERIM", i, "readable") : i \in {n} \cap {2}}
       \cup {Report("QTR-HK", i, "unreadable") : i \in {n} \cap {4}}

\* Every orderly source of four reports.
OrderlyWorlds == {w \in [Source -> UNION {At(n) : n \in Source}] : \A n \in Source : w[n] \in At(n)}

\* Two languages of one report, an amendment that is only a notice, a report
\* without a date: no order of filing to rely on.
MixedWorlds ==
    {<<Report("ANNUAL", 3, "readable"),
       [Report("ANNUAL", 3, how) EXCEPT !.language = "en", !.filed = 4],
       [Report("ANNUAL", 1, "readable") EXCEPT !.amended = TRUE, !.role = role],
       [Report("QTR-HK", 2, "titled") EXCEPT !.filed = NoDate]>> :
        how \in {"readable", "unreadable", "announced", "both"},
        role \in {"notice", "unknown", "amendment_full"}}

AllWorlds == OrderlyWorlds \cup MixedWorlds

\* Two versions of the newest annual report take both probes.
TwoVersions ==
    {<<Report("QTR-HK", 1, "titled"), Report("ANNUAL", 2, "readable"),
       Report("ANNUAL", 3, "readable"),
       [Report("ANNUAL", 3, "readable") EXCEPT !.filed = 4]>>}

Languages2 == <<"zh", "en">>

=============================================================================
