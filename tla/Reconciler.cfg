SPECIFICATION Spec
CONSTANTS
  Callers = {"c1", "c2"}
  QueueSize = 1
  MaxVersion = 2
  MaxWaiters = 2
  InitialTUN = {FALSE, TRUE}
INVARIANTS
  SettledMeansLatest
  TunCoreIsGuarded
PROPERTIES
  Refines
  SubmittersReturn
