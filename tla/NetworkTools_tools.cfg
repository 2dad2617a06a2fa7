SPECIFICATION Spec
CONSTANTS
  Addresses <- MCAddresses
  Params <- MCParams
  Tables <- MCTables
  Resolvers <- MCResolvers
  MaxSets = 2
  MaxChanges = 1
INVARIANTS
  ReadsBackWhatWasSet
  OneDefaultRoute
  OnlyFinishedSetsLeak
