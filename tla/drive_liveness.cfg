SPECIFICATION FairSpec
CONSTANTS
  Directives = {"Continue"}
  Fuels = {0, 1, NoFuel}
  NoFuel = NoFuel
  StepBudgets = {3, NoFuel}
  StackLimit = 2
  ReentryLimit = 1
  Stmts = {s1}
  NoStmt = NoStmt
  Settings = {}
  MaxFrames = 3
PROPERTIES CancelEnds DriveCallsReturn PauseStops
