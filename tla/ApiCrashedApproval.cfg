SPECIFICATION Spec
CONSTANTS
  Workflows = {w1}
  Approvals = {a1, a2}
  Requests = {r1, r2}
  Plans = {p1}
  EmptyPlan = EmptyPlan
  NoPlan = NoPlan
  NoApproval = NoApproval
  NoWorkflow = NoWorkflow
  MaxActive = 1
  MaxUnsaved = 1
  MaxCrashes = 1
SYMMETRY Symmetry
INVARIANT NoStrandedGrant
