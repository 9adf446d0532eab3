SPECIFICATION FairInvestigation
CONSTANTS
  Domains <- MCDomains
  Names <- MCNames
  NoReport = NoReport
  NONE = NONE
  Analysts = {a1, a2}
  Scenarios <- One
  Configs <- Two
  MaxFaults = 1
INVARIANTS
  InvestigationTypeOK
  SkipsHaveAReason
  ReportRepeatsTheRun
  ReportNeverOverstates
PROPERTIES
  Terminates
  CallsAreAnswered
