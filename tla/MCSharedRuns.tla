---------------------------- MODULE MCSharedRuns ----------------------------
EXTENDS SharedRuns, TLC

CONSTANTS r1, r2, r3, r4, task, other

\* "task-1" and "task-2" have the short id of their common first part, "other-1" and
\* "other-2" that of theirs.
MCRuns     == {r1, r2, r3, r4}
MCNames    == {task, other}
MCShort_id == [r \in MCRuns |-> IF r \in {r1, r2} THEN task ELSE other]

\* The runs of one short id may be swapped, and the short ids with their runs.
Swap == r1 :> r3 @@ r3 :> r1 @@ r2 :> r4 @@ r4 :> r2 @@ task :> other @@ other :> task
Symmetry == Permutations({r1, r2}) \cup Permutations(Ids) \cup {Swap}
=============================================================================
