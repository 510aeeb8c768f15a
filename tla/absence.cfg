SPECIFICATION Spec
CONSTANTS
  Hotkeys = {1, 2}
  OnBoard = {1}
  MaxDay = 3
  Episodes = 1
  Results <- MCFewResults
  ActiveLookback = 2
  CatchupDays = 3
  NeedsRealFrom = 2
  MaxMoves = 1
  MaxReruns = 1
  MaxCuts = 2
  MaxCrashes = 1
INVARIANT ChargedOnce
INVARIANT FairCharge
CHECK_DEADLOCK FALSE
