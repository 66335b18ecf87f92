SPECIFICATION Spec
CONSTANTS
  Workflows = {w1}
  Approvals = {a1, a2, a3}
  Requests = {r1, r2, r3}
  Plans = {p1}
  EmptyPlan = EmptyPlan
  NoPlan = NoPlan
  NoApproval = NoApproval
  NoWorkflow = NoWorkflow
  MaxActive = 2
  MaxUnsaved = 1
  MaxCrashes = 0
SYMMETRY Symmetry
INVARIANT CompletedOnce
