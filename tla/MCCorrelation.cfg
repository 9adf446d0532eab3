SPECIFICATION Spec
CONSTANTS
  alice = alice
  bob = bob
  payroll = payroll
  ghost = ghost
  UNSET = UNSET
  EntityOf <- MCEntityOf
  EventOf <- MCEventOf
  RelOf <- MCRelOf
  Begins <- MCBegins
  Like <- MCLike
  ILike <- MCILike
  NameOrder <- MCNameOrder
  Day = 2
  MaxDays = 1
  MaxLimit = 8
  MaxFound = 4
  DefaultFound = 2
  MaxPrincipals = 2
  Domains = {"identity", "app"}
  Catalog <- MCCatalog
  Ids <- MCIds
  Words <- MCWords
  Types <- MCTypes
  Kinds <- MCKinds
  Ranges <- MCRanges
  Limits <- MCLimits
  EventRequests <- MCEventRequests
  NeighborRequests <- MCNeighborRequests
INVARIANTS
  TypeOK
  EventsCanBeFollowed
  ShortAnswerIsComplete
  TraversalIsExact
  CaseAnswersLikeDomain
PROPERTY
  NeighborsSurviveIngest
