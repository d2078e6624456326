SPECIFICATION GSpec
CONSTANTS
  Process = {p}
  p = p
  Pair = {q, r}
  q = q
  r = r
  Person = {q, r}
  Op = {q, r}
  Author = {ann, bob}
  MaxSends = 2
  MaxShifts = 2
  MaxActions = 2
  MaxSteps = 2
  User = {ann, bob}
  ann = ann
  bob = bob
  MaxGen = 3
  MaxChanges = 3
SYMMETRY Symmetry
INVARIANTS GTypeOK CallsAreSound WritesAreSound RepairSound
CHECK_DEADLOCK FALSE
