SPECIFICATION Spec
CONSTANTS
  None = None
  p1 = p1
  p2 = p2
  CallIds <- Ids
  ToolNames <- Tools
  Processes <- One
  Batches <- RunBatches
  Usages <- Counts
  Tears <- Cuts
  MaxLines = 4
INVARIANTS
  TornAppendResumes
