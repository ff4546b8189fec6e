SPECIFICATION Spec
CONSTANTS
  Phases = 2
  Lenses = 1
  MaxCycles = 2
  MaxVersions = 2
  MaxResumes = 1
  MaxDisruptions = 2
INVARIANTS
  TypeOK
  CommitsAreVetted
  CommitsAreCovered
  GateOwnsRunningSteps
PROPERTIES
  ImplementsLedger
CHECK_DEADLOCK FALSE
