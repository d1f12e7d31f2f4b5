SPECIFICATION FairSpec
CONSTANTS
  s1 = s1
  s2 = s2
  ua = ua
  ub = ub
  uc = uc
  ux = ux
  sub = sub
  probe = probe
  stop = stop
  None = None
  Sessions = {s1}
  Users = {ua, ub}
  Subs = {sub}
  Probes = {probe}
  Stops = {stop}
  SessOf <- MCSessOf
  RateLimit = 1
  MaxPending = 2
  ClearMayFail = TRUE
  MayPanic = TRUE
PROPERTIES
  ImplementsSerialChat
  LockIsFreed
  QueuedDuringResponse
CHECK_DEADLOCK FALSE
