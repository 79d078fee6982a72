--------------------------- MODULE MCTaskJournal ---------------------------
(* Symmetry for the runs of TaskJournal. *)
EXTENDS TaskJournal, TLC

Symmetry == Permutations(Writers) \cup Permutations(Readers)

=============================================================================
