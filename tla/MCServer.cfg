SPECIFICATION ServerSpec
CONSTANTS
  Plans = {p1}
  Executions = {e1}
  Requests = {q1, q2}
  MaxLen = 4
  MaxSpent = 5
INVARIANTS
  ServerTypeOK
  NothingIdles
  HandleIsCurrent
  ClosedIsSettled
PROPERTIES
  ShutdownCompletes
CHECK_DEADLOCK FALSE
