SPECIFICATION Spec
CONSTANTS
  Domains <- MCDomains
  Names <- MCNames
  NoReport = NoReport
  Scenarios <- MCScenarios
  Configs <- MCConfigs
  MaxFaults = 2
INVARIANTS
  TypeOK
  CountedCalls
  SkipsOnlyAtTheBudget
  MissingSourceMeansLow
  HighMeansCompleteSources
  WindowHoldsEvidence
  RaisesForAReason
CHECK_DEADLOCK FALSE
