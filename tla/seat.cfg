SPECIFICATION Spec
CONSTANTS
  Hotkeys <- MCHotkeys
  MaxStanding = 1
  MarginAbs = 1
  MarginPercent = 5
  HoldDays = 2
  MaxDay = 4
  MaxReruns = 1
  MaxStops = 1
  ShutOuts <- MCShutOuts
  RipeSets <- MCRipeSets
INVARIANT ShutOutNeverReigns
PROPERTY SeatNeedsTheHold
CHECK_DEADLOCK FALSE
