SPECIFICATION Spec
CONSTANTS
  ProtocolForms <- MCProtocolForms
  ImplementForms <- MCImplementForms
  Types = {"T", "Float"}
  Members = {"m", "n", "known"}
  MaxDecls = 4
  MaxImports = 1
INVARIANT ErrorsHaveRemedies
INVARIANT RegistrySound
INVARIANT ConformingCallsEnter
PROPERTY CallsKeepRunning
CHECK_DEADLOCK FALSE
