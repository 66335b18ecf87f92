--------------------------- MODULE MCWorkflowApi ---------------------------
(* WorkflowApi on small sets of model values. *)
EXTENDS WorkflowApi, TLC

Symmetry ==
  Permutations(Workflows) \cup Permutations(Approvals)
    \cup Permutations(Requests) \cup Permutations(Plans)

=============================================================================
