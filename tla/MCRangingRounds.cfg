SPECIFICATION Spec
CONSTANTS
  MaxRounds = 3
INVARIANTS
  SafeInv
  CountsOwnMeasurements
  EveryRoundAccountedFor
\* The run ends.
CHECK_DEADLOCK FALSE
