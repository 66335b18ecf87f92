SPECIFICATION Spec
CONSTANTS
  Calls = {c1, c2}
  Diffs = {d1}
  EmptyDiff = EmptyDiff
  Lessons = {l1, l2}
  OldLessons = {}
  max_iterations = 2
  max_llm_calls = 5
  RuntimeLimited = TRUE
  require_human_review = TRUE
  ToolsFail = FALSE
  ApproveUnparked = TRUE
  MaxActive = 2
  MaxCrashes = 0
SYMMETRY Symmetry
INVARIANTS
  IInv
  BudgetBound
