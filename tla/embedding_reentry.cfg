CONSTANTS
  Builtins = {}
  Foreigns = {"ask"}
  Generations = 4
  MaxParams = 0
  MaxHandles = 0
  MaxRefs = 1
  MaxRuns = 2
  MaxActs = 3
SPECIFICATION Spec
INVARIANT CallbacksRefused
CHECK_DEADLOCK FALSE
