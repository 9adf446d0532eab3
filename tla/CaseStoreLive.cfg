SPECIFICATION FairSpec
CONSTANTS
  ent = ent
  ref1 = ref1
  ref2 = ref2
  opt = opt
  v1 = v1
  v2 = v2
  b1 = b1
  item = item
  claim = claim
  hypo = hypo
  call = call
  event = event
  NONE = NONE
  Procs = {p1, p2}
  Cases = {c1, c2}
  Entities = {ent}
  Refs = {ref1}
  Opts = {opt}
  Vals = {v1, v2}
  Bodies = {b1}
  Keys = {item, claim, hypo}
  LegacyKeys = {item}
  TableOf <- MCTableOf
  Backing <- MCBacking
  Responses <- MCFewResponses
INVARIANT
  WorkOnCurrentSchema
PROPERTY
  SessionsEnd
