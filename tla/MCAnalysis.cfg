\* Up to four events of the pool. The analysis ends when it has scored.
SPECIFICATION Spec
CHECK_DEADLOCK FALSE
CONSTANTS
  Principals <- MCPrincipals
  Relationships <- MCRelationships
  Inputs <- MCInputs
  Nobody = Nobody
  NoIP = NoIP
  MaxEvents = 4
INVARIANTS
  TypeOK
  ResolutionIsStable
  ChainsAreMaximal
  EveryEventIsClaimed
  VerdictIsSupported
  AccusationHasAnEvent
  CoverageKeepsThePattern
  LikelihoodFollowsBalance
