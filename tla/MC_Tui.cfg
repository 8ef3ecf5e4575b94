SPECIFICATION FairSpec
CONSTANTS
  None = None
  NotHeld = NotHeld
  MaxKeys = 2
  MaxRecords = 3
CHECK_DEADLOCK FALSE
INVARIANTS
  TrailDelivered
  AccountTold
PROPERTIES
  PressEndsRun
  HangupEndsRun
