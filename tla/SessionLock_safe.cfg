SPECIFICATION Spec
CONSTANTS
  None = None
  Sessions = {s1, s2}
  Handlers = {h1, h2, h3}
  RateLimit = 2
  TTL = 3
  MaxMissed = 1
  Revives = TRUE
  MayStall = FALSE
INVARIANTS
  TypeOK
  MutualExclusion
  HolderKeepsKey
PROPERTY ImplementsMutex
