SPECIFICATION PostSpec
CONSTANTS
  Threads <- MCThreads
  Openers <- MCThreads
  Poster = "main"
  Protocols = {"TCP"}
  Descriptors = {4, 5}
  ArrayDef = 1
  ArrayStep = 2
  SlotWords = 4
  MaxSlots = 3
  MaxNoMemory = 2
  MaxSends = 6
  Chunks = 3
  Tries = 3
  Credentials <- MCCredentials
  Null = Null
  PlainSize = 8
  HeaderSize = 12
  MaxPosts = 2
INVARIANTS
  TableSuffices
  AuthorizationDecodes
PROPERTIES
  DeliversOrGivesUp
CHECK_DEADLOCK FALSE
