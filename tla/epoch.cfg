SPECIFICATION Spec
CONSTANTS
  PreReveal = 2
  PostReveal = 4
  WeightsReveal = 3
  Threshold = 3
  RateLimit = 2
  PalletLength = 3
  PalletGuess = 3
  MaxSpace = 31
  Needed = 13
  PreSize = 6
  PostSize = 6
  RetrySize = 1
  Modes <- MCModes
  Burns <- MCBurns
  MaxEpoch = 2
  UpkeepTimeout = 1
  ScoringTimeout = 1
  ClosingTimeout = 1
  MaxClock = 8
  MaxFaults = 1
INVARIANT AuditInOrder
INVARIANT RescoredOnlyWhileHidden
INVARIANT NoHalfSequence
INVARIANT StaysActive
PROPERTY NeverGoesBack
CHECK_DEADLOCK FALSE
