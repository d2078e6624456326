SPECIFICATION Spec
CONSTANTS
  Replica = {r1, r2}
  r1 = r1
  r2 = r2
  s1 = s1
  s2 = s2
  Slug = {s1, s2}
  MaxMints = 2
  MaxNumber = 4
  MaxMishaps = 0
  SameTitle = TRUE
  Faults = {}
SYMMETRY Symmetry
INVARIANTS DecisionsKept
CHECK_DEADLOCK FALSE
