SPECIFICATION FairClientSpec
CONSTANTS
  t1 = t1
  t2 = t2
  t3 = t3
  None = None
  Call = {t1, t2, t3}
  MaxConnections = 3
INVARIANTS
  NoStrayConnection
PROPERTIES
  ImplementsLink
  CallsEnd
