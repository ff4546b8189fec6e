SPECIFICATION Spec
CONSTANTS
  Phases = 1
  Lenses = 1
  MaxCycles = 2
  MaxVersions = 2
  MaxResumes = 1
  MaxDisruptions = 2
INVARIANTS
  UnexpectedHistoryStaysGated
CHECK_DEADLOCK FALSE
