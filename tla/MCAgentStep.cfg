SPECIFICATION LiveSpec
CONSTANTS
  Steps <- MCSteps
  Attempts <- MCAttempts
  Artifacts <- MCArtifacts
  WriteSteps <- MCWriteSteps
  MaxPermits = 1
  BatchSize = 2
  MaxEvents <- MCOneForW
  MaxFaults <- MCOneForW
  Reopens = TRUE
INVARIANTS
  TypeOK
  PermitsAccounted
  ReturnedMatchesLog
PROPERTIES
  NoRunnerAfterAbort
  FirstTerminalDecides
  EveryStepReturns
