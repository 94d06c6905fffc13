SPECIFICATION Spec
CONSTANTS
  Uid = {u1, u2}
  Source = {s1, s2}
  None = None
  MaxDocs = 4
  DensifyBudget = 2
INVARIANTS ViewsAgree LiveCountExact IndInv
PROPERTIES DocIdsNeverReused HandlersExact ImplementsDocStore
