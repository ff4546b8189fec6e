SPECIFICATION LiveSpec
CONSTANTS
  Phases = 1
  Lenses = 2
  MaxCycles = 3
  MaxVersions = 1
  MaxResumes = 1
  MaxDisruptions = 1
PROPERTIES
  EngineSettles
CHECK_DEADLOCK FALSE
