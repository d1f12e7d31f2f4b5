SPECIFICATION FairSpec
CONSTANTS
  None = None
  Sessions = {s1, s2}
  Handlers = {h1, h2}
  RateLimit = 2
  TTL = 3
  MaxMissed = 3
  Revives = TRUE
  MayStall = TRUE
INVARIANT SlotAccounting
PROPERTY NoZombieLock
