SPECIFICATION SubscriptionsSpec
CONSTANTS
  s1 = s1
  s2 = s2
  w1 = w1
  w2 = w2
  Subs = {s1, s2}
  Workers = {w1, w2}
  Pools = {"p1", "p2"}
  Merging = {"p2"}
  Threshold = 3
SYMMETRY Symmetry
INVARIANTS
  CoreFollowsPools
  EditsAreLegal
