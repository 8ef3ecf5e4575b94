SPECIFICATION FairSpec
CONSTANTS
  None = None
  c1 = c1
  c2 = c2
  c3 = c3
  h1 = h1
  h2 = h2
  CallIds <- FreshCalls
  ToolNames <- TwoNames
  Offered <- OneTool
  Histories <- ShortHistories
  Floors <- NoFloor
  Usages <- OneUsage
  Policies <- NoPolicy
  Reasons <- OneReason
  MaxRounds = 2
  MaxBlocks = 2
INVARIANTS
  EffectsRecorded
  AbortIsFinal
  OutcomeAppends
PROPERTIES
  AfterStop
  TurnReturns
  StopReturns
  KeepsPromise
