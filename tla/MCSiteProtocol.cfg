SPECIFICATION FairSiteSpec
CONSTANTS
  i1 = i1
  s1 = s1
  s2 = s2
  e1 = e1
  e2 = e2
  c1 = c1
  c2 = c2
  None = None
  Invite = {i1}
  Session = {s1, s2}
  Endpoint = {e1, e2}
  Connection = {c1, c2}
  Limit <- MCLimit
  AllowTcp <- MCAllowTcp
  SubjectMatches <- MCSubjectMatches
  MaxFaults = 0
  EndpointOf <- MCEndpointOf
  TunnelConnection <- MCTunnels
INVARIANTS
  NoOrphanServing
  GrantsAreDurable
PROPERTIES
  AdmissionsAreCurrent
  UnregisteredIsClosed
  RemovedWorkStops
  GoneIsDisconnected
CHECK_DEADLOCK FALSE
