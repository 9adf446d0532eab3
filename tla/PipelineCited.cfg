SPECIFICATION Spec
CONSTANTS
  Domains <- MCDomains
  Names <- MCNames
  NoReport = NoReport
  Scenarios <- Small
  Configs <- Scarce
  MaxFaults = 0
INVARIANTS
  CitedEvidenceIsStored
CHECK_DEADLOCK FALSE
