SPECIFICATION Spec
CONSTANTS
  NumDocs = 5
  BlockSize = 2
  Request <- MCRequest
  Frequencies = {0, 1, 2}
  Limits = {0, 1, 2}
  Boosts = {2}
  MaxTokens = 2
CHECK_DEADLOCK FALSE
INVARIANTS TopKExact ScoresComplete
PROPERTIES SearchEnds
