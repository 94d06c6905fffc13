SPECIFICATION Spec
CONSTANTS
  u1 = u1
  u2 = u2
  u3 = u3
  u4 = u4
  c1 = c1
  c2 = c2
  Uid = {u3}
  Stored <- MCStored
  Keys <- MCKeys
  Score <- MCScore
  Client = {c1, c2}
  PageSize = 2
  KeepAlive = 1
  MaxWrites = 2
  MaxTime = 1
  MaxIds = 5
  MaxScrolls = 1
  MAX_RESULT_WINDOW = 20
  DEFAULT_AGG_SIZE = 2
  MAX_HIGHLIGHT = 8
  DEFAULT_HIGHLIGHT_FRAGMENT_SIZE = 4
  DEFAULT_HIGHLIGHT_FRAGMENT_COUNT = 2
  Today = 20000
CHECK_DEADLOCK FALSE
INVARIANTS ScrollExact CompositeComplete 
PROPERTIES RequestsEnd
