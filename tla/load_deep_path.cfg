SPECIFICATION FairSpec
CONSTANTS
  Paths <- MCPaths
  Canonicals <- MCCanonicals
  Entry = "main"
  Preloaded <- MCPreloaded
  Missing = Missing
  Locate <- MCLocate
  Values = {e1}
  Breakable = {}
  NoValue = NoValue
  NoPath = NoPath
  NoTarget = NoTarget
PROPERTIES EveryImportSettles
