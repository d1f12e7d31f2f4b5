SPECIFICATION Spec
CONSTANTS
  d1 = d1
  d2 = d2
  d3 = d3
  d4 = d4
  d6 = d6
  d7 = d7
  m1 = m1
  Deliveries = {d1, d2, d3, d4, d6, d7}
  EventOf <- MCEventOf
  Keyless = {"poke"}
  FromSelf = {"own"}
  Notices = {"notice", "poke"}
  Plugins = 3
  Deaf = {2}
  Environments <- MCEnvironments
  Hooked = 3
  Restarts = {r1, r2}
  Exits = {e1}
  Removals = {m1}
  Target <- MCTarget
  Hanging = {}
  ExecFails = TRUE
INVARIANTS
  DispatchedOnceAndWhole
  HooksRunOnceInOrder
PROPERTY EverythingEnds
CHECK_DEADLOCK FALSE
