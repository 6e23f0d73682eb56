SPECIFICATION Spec
CONSTANTS
  PolicyRules = {"private", "mark"}
  MaxInst = 2
INVARIANTS
  ClaimedByFile
  Reclaimable
  SetupOkMeansComplete
  RestoreOkMeansClean
PROPERTIES
  RestoreEventuallyCleans
