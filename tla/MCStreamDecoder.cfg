SPECIFICATION Spec
CONSTANTS
  Messages <- MCMessages
  UnknownTypes <- MCUnknownTypes
  FragmentSize = 1
  ChunkSize = 7
  MaxSent = 3
  MaxFaults = 0
INVARIANTS
  SafeInv
PROPERTIES
  ImplementsChannel
\* The device may have nothing more to say.
CHECK_DEADLOCK FALSE
