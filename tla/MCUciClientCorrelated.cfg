SPECIFICATION Safety
CONSTANTS
  start = start
  stop = stop
  Key <- MCKey
  MaxCommands = 2
  MaxNotifications = 0
  MaxFaults = 0
INVARIANTS
  CorrelatedResponse
