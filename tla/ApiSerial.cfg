SPECIFICATION FairSpec
CONSTANTS
  Workflows = {w1, w2}
  Approvals = {a1, a2, a3}
  Requests = {r1, r2, r3}
  Plans = {p1}
  EmptyPlan = EmptyPlan
  NoPlan = NoPlan
  NoApproval = NoApproval
  NoWorkflow = NoWorkflow
  MaxActive = 1
  MaxUnsaved = 2
  MaxCrashes = 0
INVARIANTS
  CompletedOnce
  GrantedOnce
  ReportIsApproved
  RowFollowsThread
  NoStrandedGrant
PROPERTIES
  ImplementsLifecycle
  GrantCompletes
  EveryCallAnswered
