SPECIFICATION DeviceSpec
CONSTANTS
  c1 = c1
  c2 = c2
  i1 = i1
  i2 = i2
  h1 = h1
  h2 = h2
  None = None
  Process = {c1, c2}
  Invite = {i1, i2}
  Limit <- MCLimit
  AllowTcp = {i1}
  Issuer = {h1, h2}
  First = h1
  MaxFaults = 1
INVARIANTS
  DeviceTypeOK
  OpenIsSaved
  FileIsGranted
  WastedOnlyByLoss
  EnrolledUntilKicked
PROPERTIES
  MountsReturn
CHECK_DEADLOCK FALSE
