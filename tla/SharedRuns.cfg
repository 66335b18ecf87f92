SPECIFICATION Spec
CONSTANTS
  r1 = r1
  r2 = r2
  r3 = r3
  r4 = r4
  task = task
  other = other
  Runs <- MCRuns
  Names <- MCNames
  short_id <- MCShort_id
  Ids = {i1, i2}
  retrieval_k = 1
  MaxReflections = 1
  MaxCalls = 3
  MaxCrashes = 1
SYMMETRY Symmetry
INVARIANTS
  IInv
  Isolated
  Delivered
  LessonsKept
  RewardIsOwn
