SPECIFICATION FairSpec
CONSTANTS
  Hotkeys = {1, 2}
  MaxDay = 2
  StrikesToEvict = 1
  WindowDays = 1
  ReviewDays = 1
  Forever = Forever
  RepeatLookback = Forever
  LookbackDays = 1
  Runs <- MCTwoRuns
  MaxLate = 1
  MaxLines = 3
  MaxReruns = 1
  MaxCrashes = 1
INVARIANTS FieldNeverEmpties EvictionHasLine
PROPERTY EventuallyCaughtUp
CHECK_DEADLOCK FALSE
