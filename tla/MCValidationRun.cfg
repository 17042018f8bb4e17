SPECIFICATION Spec
CONSTANTS
  MaxFaults = 3
INVARIANTS
  SafeInv
  FailuresExplained
  NoSessionIfLastPasses
PROPERTIES
  AllReported
\* The run ends.
CHECK_DEADLOCK FALSE
