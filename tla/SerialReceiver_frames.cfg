SPECIFICATION FairSpec
CONSTANTS
  DataLen = 12
  MinCmdLen = 7
  MaxSegments = 2
  Streams <- MCStreams
INVARIANTS
  TypeOK
  ReceiveWindow
  BufferIsStream
  LocatorInBounds
  CommandsDisjoint
  ChunkIndependent
PROPERTIES
  CleanFramesHandled
  SignalEndsMain
