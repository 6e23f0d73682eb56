SPECIFICATION Spec
CONSTANTS
  a = a
  b = b
  Callers = {a}
  MaxGen = 2
INVARIANTS
  TunProcessProtected
