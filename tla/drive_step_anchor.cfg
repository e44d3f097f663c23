SPECIFICATION Spec
CONSTANTS
  Directives = {"Continue", "StepOver"}
  Fuels = {1, NoFuel}
  NoFuel = NoFuel
  StepBudgets = {NoFuel}
  StackLimit = 3
  ReentryLimit = 1
  Stmts = {s1}
  NoStmt = NoStmt
  Settings = {}
  MaxFrames = 3
PROPERTIES StepAnchoredWhereGiven
