SPECIFICATION RecordedSpec
CONSTANTS
  s1 = s1
  s2 = s2
  ua = ua
  ub = ub
  uc = uc
  ux = ux
  sub = sub
  probe = probe
  stop = stop
  None = None
  Sessions = {s1, s2}
  Users = {ua, ub, uc, ux}
  Subs = {}
  Probes = {probe}
  Stops = {stop}
  SessOf <- MCSessOf
  RateLimit = 2
  MaxPending = 2
  ClearMayFail = TRUE
  MayPanic = TRUE
SYMMETRY Symmetry
INVARIANTS
  TypeOK OneResponder SlotsMatch ActiveIsResponder NothingVanishes
  ArrivalOrder
CHECK_DEADLOCK FALSE
