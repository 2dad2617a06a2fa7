SPECIFICATION Spec
CONSTANTS
  Threads <- MCOpeners
  Openers <- MCOpeners
  Protocols = {"TCP"}
  Descriptors = {4, 5, 6, 7, 8}
  ArrayDef = 4
  ArrayStep = 6
  SlotWords = 4
  MaxSlots = 10
  MaxNoMemory = 0
  MaxSends = 0
  Chunks = 2
INVARIANT
  GrowthKeepsSlots
CHECK_DEADLOCK FALSE
