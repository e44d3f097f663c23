SPECIFICATION Spec
CONSTANTS
  Directives = {"RunToCompletion", "Continue", "Step", "StepOver", "StepOut"}
  Fuels = {0, 2, NoFuel}
  NoFuel = NoFuel
  StepBudgets = {2, NoFuel}
  StackLimit = 3
  ReentryLimit = 1
  Stmts = {s1}
  NoStmt = NoStmt
  Settings <- MCSettings
  MaxFrames = 4
INVARIANTS TypeOK StopsSound StackSound
PROPERTIES CancelUncatchable StepHonest RaiseSeenFirst KeepsPromise
