SPECIFICATION FairSpec
CONSTANTS
  NF = 2
  Val = {0, 1}
  Flag = {0, 1}
  Stack <- MCStack
  Requests <- MCRequests
  Tries = 2
  MaxChanges = 1
  MaxCommands = 1
  MaxFails = 0
  MaxCrashes = 0
PROPERTIES
  StatusConverges
