SPECIFICATION Spec
CONSTANTS
  MaxCalls = 3
  MaxDrops = 1
  MaxChunk = 3
INVARIANTS
  SafeInv
  LateLineOnlyFromOverrun
  ClosedCleanly
  OwnAnswerUnlessGaveUp
PROPERTIES
  WholePromptEndsWait
\* The calls are used up or the transport is closed.
CHECK_DEADLOCK FALSE
