SPECIFICATION Spec
CONSTANTS
  Process = {p1, p2}
  p1 = p1
  p2 = p2
  MaxGen = 2
  MaxIds = 4
  MaxTicks = 3
  MaxLosses = 1
SYMMETRY Symmetry
INVARIANT KeptRecordIsLater
CHECK_DEADLOCK FALSE
