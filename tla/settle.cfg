SPECIFICATION FairSpec
CONSTANTS
  a = a
  b = b
  c = c
  e = e
  x = x
  y = y
  Rows <- RowsAB
  Miners <- MCMiners
  Answers <- MCAnswers
  SettlesOn <- MCSettlesOn
  MaxDay = 3
  OutcomesLookback = 1
  FullFetchDays = {3}
  Backfill = TRUE
  MaxCrashes = 2
  MaxOutages = 1
INVARIANT EntriesMatchMarks
INVARIANT AccuracyChain
PROPERTY ImplementsBook
PROPERTY AnchorOnlyGrows
PROPERTY EveryMeasuredRowEnters
CHECK_DEADLOCK FALSE
