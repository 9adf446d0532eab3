SPECIFICATION ReportSpec
CONSTANTS
  alice = alice
  bob = bob
  ref1 = ref1
  opt = opt
  v1 = v1
  b1 = b1
  hypo = hypo
  invoice = invoice
  refund = refund
  cov1 = cov1
  cov2 = cov2
  rel = rel
  call1 = call1
  call2 = call2
  NONE = NONE
  UNSET = UNSET
  Procs = {p1, p2}
  Cases = {c1}
  Entities = {alice, bob}
  Refs = {ref1}
  Opts = {opt}
  Vals = {v1}
  Bodies = {b1}
  Keys = {hypo, invoice, refund, cov1, cov2, rel}
  LegacyKeys = {hypo}
  TableOf <- MCTableOf
  Backing <- MCBacking
  Responses <- MCResponses
  EventOf <- MCEventOf
  CoverageOf <- MCCoverageOf
  EntityOf <- MCEntityOf
  CallOf <- MCCallOf
  MaxLimit = 1
  TimelineLimit = 1
INVARIANT
  TimelineIsComplete
