SPECIFICATION Safety
CONSTANTS
  Messages <- MCMessages
  UnknownTypes <- MCUnknownTypes
  FragmentSize = 1
  ChunkSize = 7
  MaxSent = 4
  MaxFaults = 2
INVARIANTS
  FrameAligned
  RaiseNeedsFault
  SpoiledOnlyByGivenUp
\* The device may have nothing more to say.
CHECK_DEADLOCK FALSE
