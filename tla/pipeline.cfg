SPECIFICATION FairSpec
CONSTANTS
  MaxDay = 3
  CatchupDays = 2
  CatchupFrom = 1
  RerunDay = 2
  MaxCorrections = 1
  MaxTrouble = 1
INVARIANTS CanonicalIsLatest
PROPERTY InDayOrder
PROPERTY ReportTellsWhatIsServed
CHECK_DEADLOCK FALSE
PROPERTY EventuallyRun
