SPECIFICATION PoolSpec
CONSTANTS
  Hotkeys = {h1, h2}
  Digests = {a, b}
  NoDigest = NoDigest
  MaxDays = 2
  KeepFrom = 2
  RemovalFrom = 2
  ByDayKept = 2
  AbsenceDays = 2
  LastDay = 4
  MaxCommits = 3
  MaxReruns = 0
  MaxCuts = 1
  MaxFaults = 1
SYMMETRY Symmetry
INVARIANT CountIsTrue
INVARIANT ServedWhileWaiting
PROPERTY AdmittedStays
CHECK_DEADLOCK FALSE
