SPECIFICATION ReleaseSpec
CONSTANTS
  Hotkeys <- MCHotkeys
  Digests <- MCDigests
  Bare <- MCBare
  Records <- MCRecords
  Runs <- MCRuns
  ReleaseAfterDaysOut = 2
  MaxEmbargoDays = 2
  Lookback = 2
  LastRunDay = 4
  MaxRewrites = 1
  MaxMishaps = 1
INVARIANT ClosedStaysPrivate
INVARIANT NeverReleasedEarly
INVARIANT DethronedReleased
PROPERTY ReleaseIsFinal
CHECK_DEADLOCK FALSE
