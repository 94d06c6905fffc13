SPECIFICATION Spec
CONSTANTS
  Searcher = {a1, a2}
  Writer = {w1, w2}
  Key = {k1, k2}
  Capacity = 1
  None = None
  MaxGeneration = 3
SYMMETRY Symmetric
INVARIANTS CacheSound StaleOnlyIfRaced
