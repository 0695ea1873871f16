SPECIFICATION FairWorkerSpec
CONSTANTS
  s1 = s1
  s2 = s2
  k1 = k1
  k2 = k2
  k3 = k3
  k4 = k4
  p1 = p1
  p2 = p2
  r1 = r1
  r2 = r2
  None = None
  Session = {s1, s2}
  Client = {k1, k2, k3, k4}
  Page = {p1, p2}
  Request = {r1, r2}
  MaxFailures = 1
INVARIANTS
  WorkerTypeOK
  OneClientOpen
PROPERTIES
  SurvivorsRecover
  RequestsEnd
