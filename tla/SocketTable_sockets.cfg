SPECIFICATION LiveSpec
CONSTANTS
  Threads <- MCThreads
  Openers <- MCOpeners
  Protocols = {"TCP"}
  Descriptors = {0, 4, 5, 6}
  ArrayDef = 2
  ArrayStep = 6
  SlotWords = 6
  MaxSlots = 8
  MaxNoMemory = 1
  MaxSends = 1
  Chunks = 2
INVARIANTS
  TypeOK
  HandleOwnsSocket
  NothingLost
  ClosesWhatIsOpen
  MessagesContiguous
PROPERTIES
  SendsEnd
CHECK_DEADLOCK FALSE
