SPECIFICATION FairSpec
CONSTANTS
  NF = 2
  Val = {0, 1}
  Flag = {0}
  Stack <- MCStack
  Requests <- MCRequests
  Tries = 1
  MaxChanges = 1
  MaxCommands = 1
  MaxFails = 1
  MaxCrashes = 0
PROPERTIES
  CommandAnswered
  QuitEnds
  ChangesNoticed
  StatusFollows
