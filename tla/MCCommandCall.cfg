SPECIFICATION Spec
CONSTANTS
  Requests <- MCRequests
  Answers <- MCAnswers
INVARIANTS
  SafeInv
  BoundaryFlagEndsMessage
  DeviceReadsConfig
  NeverMisread
\* The call returns.
CHECK_DEADLOCK FALSE
