SPECIFICATION LSpec
CONSTANTS
  t1 = t1
  t2 = t2
  x1 = x1
  x2 = x2
  Title = {t1, t2}
  Text = {x1, x2}
  MaxNumber = 4
  MaxUpdates = 1
  MaxFailures = 2
  None = None
  Capturers = {"a", "b"}
  Differs = {"d"}
  Lookbacks = {3, 7}
  MaxVersion = 4
  MaxTime = 6
  MaxEdits = 1
  KeepAll = 1
  Daily = 3
  Weekly = 4
  DayLen = 2
  WeekLen = 3
  MonthLen = 4
  Machines = {ma, mb}
  ma = ma
  mb = mb
  MaxChanges = 3
SYMMETRY Symmetry
INVARIANTS LTypeOK OneFilePerNumber BackrefsAnswered
PROPERTIES RepairsAreSafe CapturesStand QuestionsStand
CHECK_DEADLOCK FALSE
