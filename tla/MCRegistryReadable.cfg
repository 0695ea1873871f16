SPECIFICATION FaultySpec
CONSTANTS
  i1 = i1
  i2 = i2
  s1 = s1
  s2 = s2
  s3 = s3
  e1 = e1
  e2 = e2
  c1 = c1
  c2 = c2
  None = None
  Invite = {i1, i2}
  Session = {s1, s2}
  Endpoint = {e1, e2}
  Connection = {c1, c2}
  Limit <- MCLimit
  AllowTcp <- MCAllowTcp
  SubjectMatches <- MCSubjectMatches
  MaxFaults = 1
INVARIANTS
  JournalStaysReadable
CHECK_DEADLOCK FALSE
