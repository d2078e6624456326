SPECIFICATION GSpec
CONSTANTS
  Replica = {r1, r2}
  r1 = r1
  r2 = r2
  f = f
  Path = {f}
  DecisionPath = {}
  UnionPath = {}
  ComparableEtag = TRUE
  MaxEdits = 2
  MaxLate = 1
  Faults = {"race"}
  NoFile = NoFile
  Untracked = Untracked
  Paths = {"p", "q", "r"}
  Digest <- Digests
  Prior = 1
  ChunkSize = 2
  Workers = 2
  MaxAttempts = 2
  MaxTries = 2
  Files = {"project", "notes"}
  Dated = {"project"}
  Restorers = {"a", "b"}
  MaxVersion = 2
  BadVersion = 2
  MaxFaults = 2
  MaxRuns = 3
  MaxMishaps = 1
INVARIANTS GTypeOK RestoredSound
PROPERTIES AcquisitionSound RestoresAsPromised SurfacesSound StoreSettles
CHECK_DEADLOCK FALSE
