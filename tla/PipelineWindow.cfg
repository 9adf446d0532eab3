SPECIFICATION Spec
CONSTANTS
  Domains <- MCDomains
  Names <- MCNames
  NoReport = NoReport
  Scenarios <- MonthEnds
  Configs <- Ample
  MaxFaults = 0
INVARIANTS
  WindowAroundEvidence
CHECK_DEADLOCK FALSE
