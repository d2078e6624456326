SPECIFICATION ISpec
CONSTANTS
  Replica = {r1, r2}
  r1 = r1
  r2 = r2
  s1 = s1
  s2 = s2
  s3 = s3
  Slug = {s1, s2, s3}
  MaxMints = 3
  MaxNumber = 5
  MaxMishaps = 0
  SameTitle = FALSE
  Faults = {"cite"}
  Procs = {"p"}
  Repos = {"top", "sub"}
  Names = {"n"}
  Parent <- Nested
  MaxId = 3
  MaxHands = 0
  Commands <- OneByOne
SYMMETRY Symmetry
INVARIANTS ITypeOK UniqueNumbers DecisionsStand
PROPERTIES NumbersStand PullHeals RepositoriesAreSafe
CHECK_DEADLOCK FALSE
