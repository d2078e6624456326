SPECIFICATION HSpec
CONSTANTS
  Process = {p1, p2}
  p1 = p1
  p2 = p2
  MaxSends = 3
  Users = {c1, c2}
  c1 = c1
  c2 = c2
  MaxTokens = 3
  MaxOps = 2
  MaxMishaps = 1
  Callers = {"a1", "a2", "b1"}
  Processes = {"A", "B"}
  ProcessOf <- ProcessOfCaller
  MaxIssued = 3
  MaxEpochs = 2
  MaxPuts = 3
  Statuses = {200, 403, 404, 429, 503}
  Sessions = {"s", "t"}
  MaxIds = 4
  MaxEdits = 1
  MaxGen = 2
  MaxTrips = 1
INVARIANTS HTypeOK
INVARIANTS SentIsOnRecord RefusedNeverWrites
INVARIANTS LoginsSound EvidenceTruthful ConversionSound
PROPERTIES SettledIsFinal ResendFollowsAbsence HostedEnds
CHECK_DEADLOCK FALSE
