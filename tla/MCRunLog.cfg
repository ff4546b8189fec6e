SPECIFICATION Spec
CONSTANTS
  h1 = h1
  h2 = h2
  Steps <- MCSteps
  Attempts <- MCAttempts
  Artifacts <- MCArtifacts
  Handles <- MCHandles
  Processes <- MCProcesses
  Batches <- MCBatches
  MaxLog <- MCMaxLog
  MaxQueue <- MCMaxQueue
SYMMETRY HandleSymmetry
INVARIANTS
  TypeOK
  LogReplays
  RunStatesSound
  SoleHandleNeverStale
  RecoveryLegal
PROPERTIES
  RecoverySettles
