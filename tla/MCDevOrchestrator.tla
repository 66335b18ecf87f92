------------------------- MODULE MCDevOrchestrator -------------------------
(* Small instances of DevOrchestrator for TLC: the .cfg files give the sets. *)
EXTENDS DevOrchestrator, TLC

\* Calls, and the lessons still to be written, are interchangeable.
Symmetry == Permutations(Calls) \cup Permutations(Lessons \ OldLessons)
=============================================================================
