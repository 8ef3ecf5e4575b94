SPECIFICATION Spec
CONSTANTS
  Frames <- MCFrames
  MaxFrames = 5
\* A stream that said it is over is not polled again.
CHECK_DEADLOCK FALSE
INVARIANTS
  EventsAreTheFrames
  TurnEndsOnce
