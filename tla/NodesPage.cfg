SPECIFICATION PageSpec
CONSTANTS
  Groups = {"g1", "g2"}
  Automatic = {"g1"}
  Nodes = {"n1", "n2"}
  Keys <- MCKeys
  Loads = {"l1"}
  Selects = {"s1", "s2"}
INVARIANTS
  MarkIsTrue
  NoStuckTesting
