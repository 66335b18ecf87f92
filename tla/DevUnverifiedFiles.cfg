SPECIFICATION Spec
CONSTANTS
  Calls = {c1, c2}
  Diffs = {d1, d2}
  EmptyDiff = EmptyDiff
  Lessons = {l1}
  OldLessons = {}
  max_iterations = 2
  max_llm_calls = 0
  RuntimeLimited = FALSE
  require_human_review = TRUE
  ToolsFail = FALSE
  ApproveUnparked = FALSE
  MaxActive = 1
  MaxCrashes = 0
INVARIANT CommitIsVerified
