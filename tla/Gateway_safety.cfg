SPECIFICATION Spec
CONSTANTS
  NF = 2
  Val = {0, 1}
  Flag = {0, 1}
  Stack <- MCStack
  Requests <- MCRequests
  Tries = 1
  MaxChanges = 1
  MaxCommands = 2
  MaxFails = 1
  MaxCrashes = 1
INVARIANTS
  TypeOK
  NoInterleaving
  FreshReply
  FileIsMode
  ReplyIsMode
