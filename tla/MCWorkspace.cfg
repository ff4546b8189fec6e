SPECIFICATION Spec
CONSTANTS
  MaxFaults = 3
  MaxProcs = 2
INVARIANTS
  TypeOK
  FailureIsRepeatable
  ReturnedIsOver
PROPERTIES
  PreparesItsOwn
  JobReturns
