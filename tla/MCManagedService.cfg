SPECIFICATION ManagedSpec
CONSTANTS
  p1 = p1
  p2 = p2
  o1 = o1
  o2 = o2
  s1 = s1
  s2 = s2
  k1 = k1
  k2 = k2
  r1 = r1
  r2 = r2
  None = None
  Run = {p1, p2}
  Operator = {o1, o2}
  Settings = {s1, s2}
  Key = {k1, k2}
  Relay = {r1, r2}
  Platform = "systemd"
  MaxInputs = 2
  MaxFaults = 2
INVARIANTS
  ResumableUnlessOverlapped
  IdentityStays
  DefinedIsConfigured
PROPERTIES
  StaysDown
  SiteReturns
CHECK_DEADLOCK FALSE
