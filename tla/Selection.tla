----------------------------- MODULE Selection -----------------------------
(***************************************************************************)
(* The version selection of selection.py: a set of candidates is grouped   *)
(* by form and report period, one version of each group is chosen, and the *)
(* newest lastN groups are kept.  A candidate is a record with the fields  *)
(* id, form, period, filed, amended, accepted, role and language.  Dates,  *)
(* times and periods are numbers in the order of the calendar, NoPeriod    *)
(* and NoDate the missing ones; an id is a number in the order of          *)
(* source_id, the last criterion of every order of the code.               *)
(***************************************************************************)
EXTENDS Naturals, FiniteSets, FiniteSetsExt, SequencesExt

NoPeriod == 0
NoDate == 0

Role == {"full_report", "amendment_full", "notice", "summary", "unknown"}

FullRole == {"full_report", "amendment_full"}

\* _group_key: a report of unknown period is a group of its own.
SameGroup(a, b) ==
    /\ a.form = b.form
    /\ a.period = b.period
    /\ a.period = NoPeriod => a.id = b.id

\* _version_sort_key: the later filing, of one day the amendment, then the one
\* the source accepted later.
Later(a, b) ==
    \/ a.filed > b.filed
    \/ /\ a.filed = b.filed
       /\ \/ a.amended /\ ~b.amended
          \/ /\ a.amended = b.amended
             /\ a.accepted > b.accepted \/ (a.accepted = b.accepted /\ a.id > b.id)

\* Mutant: groups are ordered by their period alone.
AheadByPeriod(a, b) == a.period > b.period

\* _group_order_key, on the chosen versions of two groups: known periods
\* first, the later before the earlier, then the later filing; acceptance times
\* play no part.
Ahead(a, b) ==
    \/ a.period > b.period
    \/ a.period = b.period /\ a.filed > b.filed
    \/ a.period = b.period /\ a.filed = b.filed /\ a.id > b.id

FullVersions(group) == {r \in group : r.role \in FullRole}

Languages(group) == {r.language : r \in FullVersions(group)}

\* _select_language: the first language of the preference that the full
\* versions have; all of them when there is no choice.
InLanguage(group, preference) ==
    LET offered == {i \in DOMAIN preference : preference[i] \in Languages(group)}
    IN IF Cardinality(Languages(group)) <= 1 \/ offered = {}
       THEN FullVersions(group)
       ELSE {r \in FullVersions(group) : r.language = preference[Min(offered)]}

Newest(versions) ==
    CHOOSE r \in versions : \A o \in versions \ {r} : Later(r, o)

Groups(candidates) == {{o \in candidates : SameGroup(r, o)} : r \in candidates}

\* The groups with a full version, each by the version chosen for it.
Heads(candidates, preference) ==
    {Newest(InLanguage(g, preference)) :
        g \in {h \in Groups(candidates) : FullVersions(h) # {}}}

\* select_reports: the ids of the newest lastN groups.
SelectReports(candidates, lastN, preference) ==
    LET heads == Heads(candidates, preference)
    IN {r.id : r \in {h \in heads :
                        Cardinality({g \in heads : Ahead(g, h)}) < lastN}}

\* The quality warnings of select_reports, by kind.
SelectionWarnings(candidates, selected, preference) ==
    LET groups == Groups(candidates)
        full == {g \in groups : FullVersions(g) # {}}
    IN {w \in {"no_full", "unmerged", "language", "period_unknown"} :
        CASE w = "no_full" -> groups # full
          [] w = "unmerged" -> \E g \in full, r \in candidates :
                                 /\ r \in g
                                 /\ \/ r.role = "notice"
                                    \/ r.amended /\ r.role = "unknown"
          [] w = "language" -> \E g \in full :
                                 /\ Cardinality(Languages(g)) = 1
                                 /\ preference # <<>>
                                 /\ Languages(g) \cap ToSet(preference) = {}
          [] w = "period_unknown" -> \E r \in candidates :
                                 r.id \in selected /\ r.period = NoPeriod}

=============================================================================
