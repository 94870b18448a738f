---------------------------- MODULE MCDiscovery ----------------------------
(* Instances of Discovery for TLC: what the source may have. *)
EXTENDS Discovery

R(age, group, role, find) == [age |-> age, group |-> group, role |-> role, search |-> find]

\* Rows of four years, the oldest first: a report each, with announcements of
\* results, a summary and a correction; a year with many rows.
SmallHistories ==
    {<<R(3, 1, "full", "report"), R(2, 2, "full", "results"), R(1, 3, "summary", "report"),
       R(1, 3, "full", "report"), R(0, 4, "full", "results")>>,
     <<R(3, 1, "full", "report"), R(2, 2, "full", "report"), R(2, 3, "full", "report"),
       R(2, 4, "full", "report"), R(1, 1, "notice", "report")>>,
     <<R(3, 1, "full", "results"), R(2, 2, "full", "report"), R(1, 3, "full", "report"),
       R(0, 4, "full", "report"), R(0, 5, "full", "report")>>}

=============================================================================
