SPECIFICATION Spec
CONSTANTS
  p1 = p1
  p2 = p2
  n1 = n1
  n2 = n2
  c1 = c1
  c2 = c2
  None = None
  Ids = {p1, p2}
  Names = {n1, n2}
  Contents = {c1, c2}
SYMMETRY ProfileSymmetry
INVARIANTS
  CacheMatchesProfile
  GeneratedIsActive
  AppliedReachesCore
  ErrorMeansUnchanged
  RollbackReachesCore
PROPERTIES
  OthersUntouched
