--------------------------- MODULE MCArchiveStore ---------------------------
(* ArchiveStore on small sets of reports, contents and target names.       *)
EXTENDS ArchiveStore, TLC

\* Contents and names are only compared, and no invariant picks one of them:
\* sound for the runs that check an invariant and no temporal formula.
Symmetry == Permutations(Content) \cup Permutations(Name)
=============================================================================
