SPECIFICATION ArrivalSpec
CONSTANTS
  Frames <- MCFrames
  Trailers <- MCTrailers
INVARIANTS
  DecodedOnceComplete
  DelimitedFrameOnly
\* All bytes arrive and the walk is over.
CHECK_DEADLOCK FALSE
