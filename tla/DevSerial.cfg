SPECIFICATION FairSpec
CONSTANTS
  Calls = {c1, c2, c3}
  Diffs = {d1}
  EmptyDiff = EmptyDiff
  Lessons = {l1, l2, l3, l4}
  OldLessons = {l1}
  max_iterations = 3
  max_llm_calls = 0
  RuntimeLimited = TRUE
  require_human_review = TRUE
  ToolsFail = FALSE
  ApproveUnparked = FALSE
  MaxActive = 1
  MaxCrashes = 0
INVARIANTS
  IterationBound
  RecordedOnce
  RewardedOnce
  WorktreeReleased
PROPERTIES
  EveryCallEnds
  ImplementsTask
