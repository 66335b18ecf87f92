SPECIFICATION Spec
CONSTANTS
  Threads = {t1, t2}
  Lifetime = 7
  _REFRESH_SKEW = 3
  Patience = 1
  MaxTime = 8
  MaxTokens = 3
SYMMETRY Symmetry
INVARIANT ChatRotates
