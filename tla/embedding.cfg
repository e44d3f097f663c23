CONSTANTS
  Builtins = {"print"}
  Foreigns = {"ask"}
  Generations = 8
  MaxParams = 1
  MaxHandles = 2
  MaxRefs = 2
  MaxRuns = 2
  MaxActs = 4
SPECIFICATION Spec
INVARIANT TokensResolveTheirStack
INVARIANT OwnershipExact
INVARIANT RequestsMatchPhase
INVARIANT OneBorrower
CHECK_DEADLOCK FALSE
