SPECIFICATION Spec
CONSTANTS
  None = None
  pid = pid
  qeaa = qeaa
  Keys = {pid, qeaa}
  Roots = {root}
  Times = {0, 1, 2}
  MaxLists = 2
INVARIANTS
  TypeOK
  CacheIsOneRefresh
  TrustIsBacked
  FailedRefreshStops
PROPERTIES
  TrustIsGained
SYMMETRY Symmetry
