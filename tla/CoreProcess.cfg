SPECIFICATION Spec
CONSTANTS
  a = a
  b = b
  Callers = {a, b}
  MaxGen = 2
INVARIANTS
  NoOrphan
  RulesFollowCore
PROPERTIES
  CallsReturn
