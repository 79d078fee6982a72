---------------------------- MODULE MCTaskStore ----------------------------
(* Model values and symmetry for the runs of TaskStore. *)
EXTENDS TaskStore, TLC

Symmetry == Permutations(TaskIds) \cup Permutations(Seats) \cup Permutations(Paths)
            \cup Permutations(Trees) \cup Permutations(Commands) \cup Permutations(PRs)
            \cup Permutations(Heads) \cup Permutations(MergeCommits)

=============================================================================
