SPECIFICATION Spec
CONSTANTS
  Names = {ttyS1, ttyS2, ttyS3}
  Exact = {}
  Longer = {}
  Blocks = {b1, b2, b3}
  ListHead = head
  Descriptors = {3, 4, 5, 6}
  Configs = {}
  InitialLines <- MCInitialLines
  MaxFailedOpens = 1
  MaxFailedSets = 1
  Free = Free
  Closed = Closed
  Nil = Nil
INVARIANT
  EveryPortListed
CHECK_DEADLOCK FALSE
