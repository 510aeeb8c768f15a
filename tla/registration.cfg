SPECIFICATION FairSpec
CONSTANTS
  Hotkeys = {h1}
  NoOne = NoOne
  MaxBlock = 3
  Lookback = 1
  RecentBlocks = 2
  CheckpointEvery = 2
  MaxPerPass = 3
  Paces = {0, 1, 3}
  MaxOverlaps = 1
  MaxFaults = 1
INVARIANT NoGap
PROPERTY NeverDrops
PROPERTY EventuallyIndexed
CHECK_DEADLOCK FALSE
