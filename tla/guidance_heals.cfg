SPECIFICATION WSpec
CONSTANTS
  MaxCommands = 2
  MaxMishaps = 1
  MaxRetouches = 0
INVARIANT GuidanceHeals
CHECK_DEADLOCK FALSE
