SPECIFICATION Spec
CONSTANTS
  Tools <- Four
  Risky <- Effects
  Approved <- Two
  MaxCalls = 3
  MaxTyped = 4
INVARIANTS
  ConsentIsForThisCall
