SPECIFICATION YSpec
CONSTANTS
  Replica = {r1, r2}
  r1 = r1
  r2 = r2
  file = file
  decision = decision
  log = log
  Path = {file, decision, log}
  DecisionPath = {decision}
  UnionPath = {log}
  ComparableEtag = TRUE
  MaxEdits = 3
  MaxLate = 1
  Faults = {"fetch", "oserror"}
  Edits = 2
  KillFaults = {"crash", "interrupt", "fetch", "oserror", "stateloss"}
  DecisionFaults = {"late", "race", "oserror", "fetch"}
  DecisionDeletions = {"delete", "race", "oserror", "fetch"}
  UnionFaults = {"put", "fetch", "crash", "oserror", "interrupt", "race", "stateloss"}
  UnionDeletions = {"delete", "put"}
  MaxCommands = 2
  MaxMishaps = 1
  MaxRetouches = 1
  NoFile = NoFile
  Untracked = Untracked
SYMMETRY Symmetry
INVARIANTS TypeOK EtagTruthful ReceiptsTruthful 
PROPERTIES OverwritesOnlyWhatIsKept
CHECK_DEADLOCK FALSE
