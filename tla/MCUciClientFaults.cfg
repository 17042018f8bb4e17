SPECIFICATION Spec
CONSTANTS
  start = start
  stop = stop
  Key <- MCKey
  MaxCommands = 2
  MaxNotifications = 2
  MaxFaults = 1
INVARIANTS
  SafeInv
  OwnResponseUnlessGaveUp
  NoResponseReturnedTwice
  NotificationsInOrder
PROPERTIES
  CallsEnd
  ImplementsService
