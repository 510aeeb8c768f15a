SPECIFICATION Spec
CONSTANTS
  Hotkeys = {1, 2}
  MaxDay = 3
  StrikesToEvict = 1
  WindowDays = 1
  ReviewDays = 1
  Forever = Forever
  RepeatLookback = Forever
  LookbackDays = 1
  Runs <- MCTwoRuns
  MaxLate = 0
  MaxLines = 3
  MaxReruns = 1
  MaxCrashes = 1
INVARIANTS EvictedIffLogged EvictionEarned PruningIsInvisible
CHECK_DEADLOCK FALSE
