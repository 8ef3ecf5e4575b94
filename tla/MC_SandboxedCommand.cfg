SPECIFICATION FairSpec
CONSTANTS
  CommandStatuses <- MCCommandStatuses
  DegradedTogether <- MCDegradedTogether
  MaxStrikes = 1
  MaxSwaps = 1
\* The call returns and its processes are gone.
CHECK_DEADLOCK FALSE
INVARIANTS
  RefusalMeansNotRun
  RanAsPromised
  NothingUnwatched
  TrailTellsTheResult
  StatusIsTheCommands
PROPERTIES
  CallReturns
