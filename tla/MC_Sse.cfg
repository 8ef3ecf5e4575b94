SPECIFICATION SseSpec
CONSTANTS
  MAX_EVENT_BYTES = 3
  MaxBytes = 7
  MaxChunk = 3
\* A stream that said it is over is not polled again.
CHECK_DEADLOCK FALSE
INVARIANTS
  FramesAreTheLines
  MemoryBounded
