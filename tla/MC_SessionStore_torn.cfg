SPECIFICATION Spec
CONSTANTS
  None = None
  p1 = p1
  p2 = p2
  CallIds <- Ids
  ToolNames <- Tools
  Processes <- Two
  Batches <- AllBatches
  Usages <- Counts
  Tears <- AllTears
  MaxLines = 5
INVARIANTS
  ConcurrentRunsResume
  ResumedAgreesWithContinued
  ResumeReadsAllWritten
  StopDescribesTheEnd
