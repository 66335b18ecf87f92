SPECIFICATION Spec
CONSTANTS
  Workflows = {w1}
  Approvals = {a1, a2, a3}
  Requests = {r1, r2, r3}
  Plans = {p1, p2}
  EmptyPlan = EmptyPlan
  NoPlan = NoPlan
  NoApproval = NoApproval
  NoWorkflow = NoWorkflow
  MaxActive = 3
  MaxUnsaved = 4
  MaxCrashes = 1
SYMMETRY Symmetry
INVARIANTS
  IInv
  HumanGate
  CompletionIsBacked
  ParkedOnOwnApproval
PROPERTY ImplementsGate
