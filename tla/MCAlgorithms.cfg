SPECIFICATION Spec
CONSTANTS
  Corpora <- MCCorpora
  Leaves <- MCLeaves
  Inputs <- MCInputs
  GroupBits = 2
  WordBits = 5
  ForBlockSize = 10
  DictionaryBlockSize = 2
  P2_INTEGRITY_PAGE_LEN = 3
  MAX_RESULT_WINDOW = 20
  DEFAULT_AGG_SIZE = 2
  MAX_HIGHLIGHT = 8
  DEFAULT_HIGHLIGHT_FRAGMENT_SIZE = 4
  DEFAULT_HIGHLIGHT_FRAGMENT_COUNT = 2
  Today = 20000
CHECK_DEADLOCK FALSE
PROPERTIES CodecFaithful StorageFaithful MatchersExact PlansAgree HighlightFaithful MappingRoundTrip DatesAgree
