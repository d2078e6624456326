SPECIFICATION Spec
CONSTANTS
  Replica = {r1, r2}
  r1 = r1
  r2 = r2
  f = f
  Path = {f}
  DecisionPath = {}
  UnionPath = {f}
  ComparableEtag = FALSE
  MaxEdits = 3
  MaxLate = 1
  Faults = {}
  NoFile = NoFile
  Untracked = Untracked
SYMMETRY Symmetry
INVARIANTS EditsRecoverable

CHECK_DEADLOCK FALSE
