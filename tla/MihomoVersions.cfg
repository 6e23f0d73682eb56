SPECIFICATION Spec
CONSTANTS
  v1 = v1
  v2 = v2
  a1 = a1
  a2 = a2
  Versions = {v1, v2}
  Actors = {a1, a2}
SYMMETRY Symmetry
INVARIANTS
  VersionsAreWhatTheySay
  ActiveIsInstalled
  ActivationHolds
  TaskShownIsAlive
