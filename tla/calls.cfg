SPECIFICATION ProgramsSpec
CONSTANTS
  Library <- MCLibrary
  Start <- MCStart
  Mains <- MCMains
  NodesAt <- MCNodesAt
  BodiesAt <- MCBodiesAt
  Family = "Nested"
  Values = 3
  StackLimit = 5
  MaxCoins = 3
  MaxLog = 3
  Data = {"x"}
  Funs = {"f"}
  Params = {"x", "_"}
  Heads <- MCHeads
  Budgets <- MCBudgets
  MaxDepth = 4
  MaxCalls = 3
INVARIANTS FramesSound MeansTheSame ProperTails SlotsMeanNames
PROPERTIES StaticChecksSound
CHECK_DEADLOCK FALSE
