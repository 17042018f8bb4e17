SPECIFICATION Spec
CONSTANTS
  MaxCalls = 2
  MaxDrops = 0
  MaxChunk = 3
PROPERTIES
  TimeoutMeansNoPrompt
CHECK_DEADLOCK FALSE
