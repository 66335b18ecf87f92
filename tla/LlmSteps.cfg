SPECIFICATION FairSpec
CONSTANTS
  interval = 1
  timeout = 4
  SlowDown = 1
  RequestTime = 1
  MaxFlows = 2
  Tools = {t1}
  Unknown = Unknown
  max_tool_steps = 2
  Lifetime = 4
  _REFRESH_SKEW = 2
  MaxCalls = 2
  MaxSteps = 2
  MaxTime = 9
INVARIANTS
  IInv
  CallsAnswered
  RequestsBounded
  RejectedOnlyLate
  FlowEnds
  AuthorizedIsSeen
PROPERTY StepsEnd
