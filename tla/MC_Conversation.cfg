SPECIFICATION Spec
CONSTANTS
  None = None
  CallIds <- Calls
  ToolNames <- Tools
  Usages <- BothUsages
  Policies <- AnyPolicy
  WrapUps = {TRUE, FALSE}
  MaxRounds = 2
  MaxStored = 12
INVARIANTS
  TranscriptResumes
  StopTellsTheEnd
  RequestAccepted
  CutNamesTheSame
  StaysWithheld
PROPERTIES
  ExitAgrees
