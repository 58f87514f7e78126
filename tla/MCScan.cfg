SPECIFICATION Spec
CONSTANTS
  None = None
  Day = 1
  ExpiryWarningDays = 1
  QuantumDeprecation = 4
  QuantumProhibition = 20
  Project <- MCProject
  Options <- MCOptions
  Moment <- MCMoment
  Analyzed <- MCAnalyzed
  Detected <- MCDetected
  Parsed <- MCParsed
  Canonical <- NormalizeAlgorithm
INVARIANTS
  TypeOK
  FailureCostsOnlyItself
  EveryLookupSucceeds
  ReportsAgree
  GateExactWhereIdsDecide
  AdviceFitsAssessment
PROPERTIES
  Terminates
CHECK_DEADLOCK FALSE
