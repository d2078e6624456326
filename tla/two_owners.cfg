SPECIFICATION NSpec
CONSTANTS
  Procs = {"p"}
  Repos = {"top", "sub"}
  Names = {"n"}
  Parent <- Nested
  MaxId = 3
  MaxHands = 0
  Commands <- Everything
INVARIANT OneOwnerInTurn
CHECK_DEADLOCK FALSE
