SPECIFICATION FairSpec
CONSTANTS
  DataLen = 23
  MinCmdLen = 17
  MaxSegments = 1
  Streams <- MCStreams
PROPERTY
  ReceivesAgain
