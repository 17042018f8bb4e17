SPECIFICATION PollingSpec
CONSTANTS
  start = start
  stop = stop
  Key <- MCKey
  MaxCommands = 2
  MaxNotifications = 2
  MaxFaults = 0
INVARIANTS
  PollReturnsTheNew
  ResponseStillComing
  NoGapInv
PROPERTIES
  ImplementsChannel
CHECK_DEADLOCK TRUE
