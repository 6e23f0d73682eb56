SPECIFICATION Spec
CONSTANTS
  c1 = c1
  c2 = c2
  Clients = {c1, c2}
  Bodies = {"b0", "b1"}
  DefaultBody = "b0"
  Secrets = {"s1", "s2"}
  NoSecret = ""
  MaxVersion = 3
SYMMETRY ClientSymmetry
INVARIANTS
  RestartKeepsCommitted
  VersionIdentifiesContent
PROPERTIES
  MigrationKeepsSecret
