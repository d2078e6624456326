SPECIFICATION RSpec
CONSTANTS
  Process = {p1, p2}
  p1 = p1
  p2 = p2
  MaxGen = 3
  MaxIds = 5
  MaxTicks = 4
  MaxLosses = 1
  Committers = {p1, p2}
  Title = {"t", "u"}
  Text = {"x"}
  MaxCommits = 3
  MaxText = 2
SYMMETRY Symmetry
INVARIANTS RTypeOK ReplicaSound
PROPERTIES LastSuccessKept CommitsStand
CHECK_DEADLOCK FALSE
