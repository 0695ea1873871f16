SPECIFICATION ServiceSpec
CONSTANTS
  i1 = i1
  i2 = i2
  i3 = i3
  s1 = s1
  s2 = s2
  e1 = e1
  None = None
  Invite = {i1, i2, i3}
  Session = {s1, s2}
  Endpoint = {e1}
  Connection = {}
  Limit <- MCLimit
  AllowTcp <- MCAllowTcp
  SubjectMatches <- MCSubjectMatches
  MaxFaults = 1
INVARIANTS
  OnlyCurrentIsOpen
  AcknowledgedDenialsAreDurable
PROPERTIES
  RemovedStayOut
  HandedOutIsOpen
CHECK_DEADLOCK FALSE
