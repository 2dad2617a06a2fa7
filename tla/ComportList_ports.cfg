SPECIFICATION Spec
CONSTANTS
  Names = {ttyS1, ttyS2, long}
  Exact = {long}
  Longer = {}
  Blocks = {b1, b2, b3}
  ListHead = head
  Descriptors = {3, 4, 5}
  Configs <- MCConfigs
  InitialLines <- MCInitialLines
  MaxFailedOpens = 1
  MaxFailedSets = 2
  Free = Free
  Closed = Closed
  Nil = Nil
INVARIANTS
  TypeOK
  SmallListIsThePorts
  NoStrayAccess
  WalkReturns
  OneHolderPerDevice
  OwnDescriptor
  OnlyFailedOpensLeak
  LineFollowsConfig
SYMMETRY MCSymmetry
CHECK_DEADLOCK FALSE
