SPECIFICATION RequestSpec
CONSTANTS
  p1 = p1
  p2 = p2
  o1 = o1
  o2 = o2
  None = None
  Process = {p1, p2}
  Operator = {o1, o2}
  Action = {"rotate", "stop"}
  MaxCalls = 2
  MaxLines = 1
INVARIANTS
  AcknowledgedLinesSurvive
CHECK_DEADLOCK FALSE
