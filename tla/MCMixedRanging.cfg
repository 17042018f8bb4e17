SPECIFICATION Spec
INVARIANTS
  SerialClosedAtEnd
  LeftOnOnlyByBridge
  ResponderLeftOnlyByBoth
  SessionLeftOnlyByDevice
  RangesWithResponder
PROPERTIES
  RemoteOutlivesRanging
  Terminates
\* The run ends.
CHECK_DEADLOCK FALSE
