SPECIFICATION Spec
CONSTANTS
  Library <- MCLibrary
  Start <- MCStart
  Mains <- MCMains
  NodesAt <- MCNodesAt
  BodiesAt <- MCBodiesAt
  Family = "Bare"
  Values = 3
  StackLimit = 5
  MaxCoins = 3
  MaxLog = 3
INVARIANTS ReraiseHasException
CHECK_DEADLOCK FALSE
