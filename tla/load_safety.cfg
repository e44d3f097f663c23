SPECIFICATION FairSpec
CONSTANTS
  Paths <- MCPaths
  Canonicals <- MCCanonicals
  Entry = "main"
  Preloaded <- MCPreloaded
  Missing = Missing
  Locate <- MCLocate
  Values = {e1, e2}
  Breakable = {"one"}
  NoValue = NoValue
  NoPath = NoPath
  NoTarget = NoTarget
INVARIANTS RegistrySound FailureIsFinal
PROPERTIES ImportsSettle
