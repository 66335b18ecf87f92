SPECIFICATION Spec
CONSTANTS
  Threads = {t1, t2, t3}
  Lifetime = 4
  _REFRESH_SKEW = 3
  Patience = 1
  MaxTime = 5
  MaxTokens = 3
SYMMETRY Symmetry
INVARIANTS
  IInv
  ReturnedIsValid
  DriftBounded
PROPERTY BuiltValid
