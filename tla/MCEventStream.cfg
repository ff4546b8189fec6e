SPECIFICATION Spec
CONSTANTS
  MaxRows = 4
  MaxVisits = 3
  MaxFaults = 3
INVARIANTS
  TypeOK
  ShownIsTrue
PROPERTIES
  WatcherCatchesUp
CHECK_DEADLOCK FALSE
