SPECIFICATION Spec
CONSTANTS
  c1 = c1
  c2 = c2
  Client = {c1, c2}
  Requests <- MCRequests
  NameLess <- MCNameLess
  MaxRequests = 5
CHECK_DEADLOCK FALSE
INVARIANTS AliasesPointAtIndices TemplatesApplied BulkFaithful
PROPERTIES FieldTypesStable
