SPECIFICATION Spec
CONSTANTS
  Calls = {c1, c2, c3}
  Diffs = {d1, d2}
  EmptyDiff = EmptyDiff
  Lessons = {l1, l2}
  OldLessons = {}
  max_iterations = 3
  max_llm_calls = 7
  RuntimeLimited = TRUE
  require_human_review = TRUE
  ToolsFail = TRUE
  ApproveUnparked = TRUE
  MaxActive = 1
  MaxCrashes = 2
SYMMETRY Symmetry
INVARIANTS
  CommitIsGated
  CommitIsApproved
  ReviewIsCurrent
