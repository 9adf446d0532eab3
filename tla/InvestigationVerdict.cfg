SPECIFICATION InvestigationSpec
CONSTANTS
  Domains <- MCDomains
  Names <- MCNames
  NoReport = NoReport
  NONE = NONE
  Analysts = {a1}
  Scenarios <- One
  Configs <- Two
  MaxFaults = 0
INVARIANT
  ReportIsReproducible
