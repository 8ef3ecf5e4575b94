SPECIFICATION Spec
CONSTANTS
  None = None
  c1 = c1
  c2 = c2
  c3 = c3
  h1 = h1
  h2 = h2
  CallIds <- TwoCalls
  ToolNames <- OneTool
  Offered <- NoTools
  Histories <- CompactedHistories
  Floors <- FewFloors
  Usages <- BothUsages
  Policies <- CompactionPolicies
  Reasons <- OneReason
  MaxRounds = 3
  MaxBlocks = 2
SYMMETRY TwoCallSymmetry
INVARIANTS
  RequestAccepted
  ReasoningFresh
  FloorHeld
  FiguresMatch
PROPERTIES
  CutOnlyDeepens
